---- MODULE Spec2Model ----
(***************************************************************************)
(* A model of the Nickel REPL (src/src/repl.rs): the backend REPLImpl with *)
(* its typing and evaluation environments, the terminal main loop, and the *)
(* core operations the backend calls (typechecker, transformations,        *)
(* evaluator, merge), which live outside repl.rs.                          *)
(***************************************************************************)
EXTENDS Integers, Sequences, FiniteSets, TLC

(***************************************************************************)
(* Bounds of the model.                                                    *)
(***************************************************************************)
\* The number of thunks the heap may hold (every toplevel let, loaded field
\* and stdlib entry allocates one).
MaxThunks == 2

(***************************************************************************)
(* Terms.  A term is a pair <<kind, payload>>; the kinds are the shapes    *)
(* the REPL operations tell apart by their outcome at each stage.          *)
(***************************************************************************)
Idents == {"x", "y"}
StdIdents == {"s"}

Num1 == <<"Num", "1">>
Num2 == <<"Num", "2">>
\* A dynamically failing term of untyped code, e.g. `1 + "a"`.
Fail == <<"Fail", "-">>
\* A statically ill-typed term, e.g. `("a" : Num)`.
IllTyped == <<"IllTyped", "-">>
\* An import of a file that cannot be resolved.
Import == <<"Import", "-">>
Var(id) == <<"Var", id>>
\* A term that is no record literal and evaluates to a record, e.g.
\* `let y = 1 in {x = y}`.
LetRecord == <<"LetRecord", "-">>

\* The terms given to the backend as inputs.
Terms == {Num1, Fail, IllTyped, Import} \cup {Var(id) : id \in Idents}

\* What the extended parser makes of an input string: a parse error, a
\* term, or a toplevel let.
ParseErr == [k |-> "ParseError", id |-> "-", t |-> Num1]
RichTerm(t) == [k |-> "RichTerm", id |-> "-", t |-> t]
ToplevelLet(id, t) == [k |-> "ToplevelLet", id |-> id, t |-> t]

Exps ==
    {ParseErr} \cup {RichTerm(t) : t \in Terms}
    \cup {ToplevelLet(id, t) : id \in Idents, t \in Terms}

\* The inputs given to typecheck and query, which parse terms only: no
\* toplevel let is told from another.
TermExps == {ParseErr, ToplevelLet("x", Num1)} \cup {RichTerm(t) : t \in Terms}

(***************************************************************************)
(* State.                                                                  *)
(***************************************************************************)
VARIABLES
    type_env,   \* REPLImpl.type_env: identifier -> type
    eval_env,   \* REPLImpl.eval_env: identifier -> address of its thunk
    thunks,     \* the shared thunks (Rc cells) the environments point to
    ret,        \* what the last operation returned
    stages,     \* the pipeline stages the last operation ran, with outcome
    pc,         \* where the terminal main loop is
    rl,         \* what readline gave the main loop last
    reported,   \* the error the main loop reported for it, "-" for none
    lhs,        \* the left operand of a merge
    rhs,        \* the right operand of a merge
    merged,     \* the result of merging them
    third,      \* the third operand of a multi-way merge
    swapped,    \* the result of merging rhs with lhs
    foldl,      \* the three operands folded left to right
    foldr,      \* the three operands folded right to left
    input,      \* the text being edited in the terminal, lines joined by \n
    status,     \* the InputStatus InputParser::parse gave for it
    validation, \* the ValidationResult of the validator for it
    answer,     \* what simple_frontend::input answered, and its WASM tag
    cmd_in,     \* the text given to Command::from_str: a word and the rest
    command,    \* what Command::from_str made of it
    out,        \* what the last help or query report wrote, line by line
    qterm,      \* the term given to write_query_result
    attrs,      \* the Attributes given to write_query_result
    cache,      \* the names of the sources the cache holds, oldest first
    counter     \* InputNameCounter

vars ==
    <<type_env, eval_env, thunks, ret, stages, pc, rl, reported,
      lhs, rhs, merged, third, swapped, foldl, foldr,
      input, status, validation, answer, cmd_in, command,
      out, qterm, attrs, cache, counter>>

backend_vars == <<type_env, eval_env, thunks, ret, stages>>
editor_vars == <<input, status, validation>>
command_vars == <<cmd_in, command>>
print_vars == <<out, qterm, attrs>>
cache_vars == <<cache, counter>>
frontend_vars ==
    <<pc, rl, reported, editor_vars, answer, command_vars, print_vars, cache_vars>>
merge_vars == <<lhs, rhs, merged, third, swapped, foldl, foldr>>
fold_vars == <<third, swapped, foldl, foldr>>

EmptyEnv == [i \in {} |-> 0]

Extend(env, id, v) == [i \in DOMAIN env \cup {id} |-> IF i = id THEN v ELSE env[i]]

Stage(name, ok) == [stage |-> name, ok |-> ok]

\* The record of an operation: which operation, on which kind of input (and
\* the identifier a toplevel let binds), and the result: its tag and value.
Ret(op, inp, id, tag, val) ==
    [op |-> op, inp |-> inp, id |-> id, tag |-> tag, val |-> val]

Out(self, r, st) == [self |-> self, ret |-> r, stages |-> st]

(***************************************************************************)
(* The typechecker (crate::typecheck), as far as the REPL uses it.         *)
(***************************************************************************)
\* type_check_in_env(t, env): an unbound identifier and a term that
\* contradicts its annotation are type errors; untyped code is not checked
\* further and an import has the dynamic type.
type_check_in_env(t, tenv) ==
    CASE t[1] = "Var" -> t[2] \in DOMAIN tenv
      [] t[1] = "IllTyped" -> FALSE
      [] OTHER -> TRUE

\* apparent_type(t, env): the type read off the term without checking it.
apparent_type(t, tenv) ==
    CASE t[1] = "Num" -> "Num"
      [] t[1] = "Var" -> IF t[2] \in DOMAIN tenv THEN tenv[t[2]] ELSE "Dyn"
      [] OTHER -> "Dyn"

\* Envs::env_add(env, id, t): bind id to the apparent type of t.
type_env_add(tenv, id, t) == Extend(tenv, id, apparent_type(t, tenv))

(***************************************************************************)
(* The transformation pipeline (crate::transformations).  Import           *)
(* resolution is the pass that can fail; the other passes keep the shape   *)
(* of the term.                                                            *)
(***************************************************************************)
transform_ok(t) == t[1] # "Import"

transform(t) == t

(***************************************************************************)
(* The lazy evaluator (crate::eval).  A thunk is a closure (body, env)     *)
(* with a memoization cell: state, value and the number of times a value   *)
(* was written to the cell.                                                *)
(***************************************************************************)
Thunk(body, env) ==
    [body |-> body, env |-> env, state |-> "suspended", value |-> "-", runs |-> 0]

EvalOk(h, v) == [heap |-> h, ok |-> TRUE, val |-> v]
EvalErr(h) == [heap |-> h, ok |-> FALSE, val |-> "-"]

RECURSIVE eval_closure(_, _, _)
RECURSIVE force(_, _)

\* force without the look at the memoization cell: the body is evaluated
\* on every force.
force_always(h, a) ==
    LET r == eval_closure(h, h[a].body, h[a].env)
    IN  IF r.ok
        THEN EvalOk([r.heap EXCEPT ![a].state = "evaluated",
                                   ![a].value = r.val,
                                   ![a].runs = @ + 1],
                    r.val)
        ELSE r

\* Forcing the thunk at address a: an evaluated thunk answers with its
\* cached value; a suspended one evaluates its body in its own environment
\* and, when that succeeds, caches the value.
force(h, a) ==
    IF h[a].state = "evaluated"
    THEN EvalOk(h, h[a].value)
    ELSE LET r == eval_closure(h, h[a].body, h[a].env)
         IN  IF r.ok
             THEN EvalOk([r.heap EXCEPT ![a].state = "evaluated",
                                        ![a].value = r.val,
                                        ![a].runs = @ + 1],
                         r.val)
             ELSE r

\* Evaluation of a term in an environment, to weak head normal form.
eval_closure(h, t, env) ==
    CASE t[1] = "Num" -> EvalOk(h, t[2])
      [] t[1] = "LetRecord" -> EvalOk(h, "record")
      [] t[1] = "Var" ->
            IF t[2] \in DOMAIN env THEN force(h, env[t[2]]) ELSE EvalErr(h)
      [] OTHER -> EvalErr(h)

\* eval::env_add(env, id, t, local_env): bind id to a new thunk closing t
\* over local_env.  Returns the new heap and the new environment.
eval_env_add(h, env, id, t, local_env) ==
    [heap |-> Append(h, Thunk(t, local_env)),
     env |-> Extend(env, id, Len(h) + 1)]

\* The identifiers in the order in which the fields of a record are added.
IdOrder == <<"s", "x", "y">>

RECURSIVE eval_env_add_fields(_, _, _, _)
eval_env_add_fields(h, env, fields, i) ==
    IF i > Len(IdOrder) THEN [heap |-> h, env |-> env]
    ELSE IF IdOrder[i] \in DOMAIN fields
         THEN LET r == eval_env_add(h, env, IdOrder[i], fields[IdOrder[i]], EmptyEnv)
              IN  eval_env_add_fields(r.heap, r.env, fields, i + 1)
         ELSE eval_env_add_fields(h, env, fields, i + 1)

\* eval::env_add_term(env, record): bind every field of the record to a new
\* thunk holding the field's term.
eval_env_add_term(h, env, fields) == eval_env_add_fields(h, env, fields, 1)

RECURSIVE type_env_add_fields(_, _, _)
type_env_add_fields(tenv, fields, i) ==
    IF i > Len(IdOrder) THEN tenv
    ELSE IF IdOrder[i] \in DOMAIN fields
         THEN type_env_add_fields(type_env_add(tenv, IdOrder[i], fields[IdOrder[i]]),
                                  fields, i + 1)
         ELSE type_env_add_fields(tenv, fields, i + 1)

\* Envs::env_add_term(env, record): bind every field of the record to the
\* apparent type of the field's term.
type_env_add_term(tenv, fields) == type_env_add_fields(tenv, fields, 1)

\* Envs::mk_global(eval_env): the typing environment of an evaluation
\* environment, one entry per bound identifier.
mk_global(h, env) == [id \in DOMAIN env |-> apparent_type(h[env[id]].body, EmptyEnv)]

\* The standard library, a record of definitions.
StdlibFields == [id \in StdIdents |-> Num1]

\* Cache::mk_global_env(): the evaluation environment of the standard library.
mk_global_env(h) == eval_env_add_term(h, EmptyEnv, StdlibFields)

(***************************************************************************)
(* Files given to load.                                                    *)
(***************************************************************************)
FileMissing == [k |-> "IOError", t |-> Num1, fields |-> EmptyEnv]
FileGarbage == [k |-> "ParseError", t |-> Num1, fields |-> EmptyEnv]
FileTerm(t) == [k |-> "Term", t |-> t, fields |-> EmptyEnv]
FileRecord(fields) == [k |-> "Record", t |-> Num1, fields |-> fields]

RecordFields ==
    { [i \in {"x"} |-> Num1],
      [i \in {"y"} |-> IllTyped],
      [i \in {"x"} |-> Import],
      [i \in {"x", "y"} |-> IF i = "x" THEN Num2 ELSE Fail] }

Files ==
    {FileMissing, FileGarbage, FileTerm(Num1), FileTerm(LetRecord)}
    \cup {FileRecord(f) : f \in RecordFields}

(***************************************************************************)
(* REPLImpl, the backend.  self is the record of its fields; an operation  *)
(* gives the new self, what it returns and the stages it ran.              *)
(***************************************************************************)
\* REPLImpl::new()
new == [type_env |-> EmptyEnv, eval_env |-> EmptyEnv, thunks |-> <<>>]

\* load_stdlib with the typing environment made from the evaluation
\* environment as it was before the call.
load_stdlib_types_first(self, ok) ==
    IF ~ok
    THEN Out(self, Ret("load_stdlib", "-", "-", "Error", "-"),
             <<Stage("prepare_stdlib", FALSE)>>)
    ELSE LET g == mk_global_env(self.thunks)
         IN  Out([type_env |-> mk_global(self.thunks, self.eval_env),
                  eval_env |-> g.env,
                  thunks |-> g.heap],
                 Ret("load_stdlib", "-", "-", "Ok", "-"),
                 <<Stage("prepare_stdlib", TRUE)>>)

\* REPLImpl::load_stdlib; ok is whether Cache::prepare_stdlib succeeds.
load_stdlib(self, ok) ==
    IF ~ok
    THEN Out(self, Ret("load_stdlib", "-", "-", "Error", "-"),
             <<Stage("prepare_stdlib", FALSE)>>)
    ELSE LET g == mk_global_env(self.thunks)
         IN  Out([type_env |-> mk_global(g.heap, g.env),
                  eval_env |-> g.env,
                  thunks |-> g.heap],
                 Ret("load_stdlib", "-", "-", "Ok", "-"),
                 <<Stage("prepare_stdlib", TRUE)>>)

\* eval_rich_term with the evaluator run whatever the typechecker said.
eval_rich_term_unchecked(self, t) ==
    LET r == eval_closure(self.thunks, transform(t), self.eval_env)
    IN  Out([self EXCEPT !.thunks = r.heap],
            Ret("eval", "RichTerm", "-",
                IF r.ok THEN "Evaluated" ELSE "EvalError", r.val),
            <<Stage("parse", TRUE),
              Stage("typecheck", type_check_in_env(t, self.type_env)),
              Stage("transform", transform_ok(t)), Stage("evaluate", r.ok)>>)

\* REPL::eval, the arm ExtendedTerm::RichTerm(t).
eval_rich_term(self, t) ==
    IF ~type_check_in_env(t, self.type_env)
    THEN Out(self, Ret("eval", "RichTerm", "-", "TypecheckError", "-"),
             <<Stage("parse", TRUE), Stage("typecheck", FALSE)>>)
    ELSE IF ~transform_ok(t)
    THEN Out(self, Ret("eval", "RichTerm", "-", "ImportError", "-"),
             <<Stage("parse", TRUE), Stage("typecheck", TRUE),
               Stage("transform", FALSE)>>)
    ELSE LET r == eval_closure(self.thunks, transform(t), self.eval_env)
         IN  Out([self EXCEPT !.thunks = r.heap],
                 Ret("eval", "RichTerm", "-",
                     IF r.ok THEN "Evaluated" ELSE "EvalError", r.val),
                 <<Stage("parse", TRUE), Stage("typecheck", TRUE),
                   Stage("transform", TRUE), Stage("evaluate", r.ok)>>)

\* eval_toplevel_let with the typing environment extended before the
\* definition is typechecked.
eval_toplevel_let_add_first(self, id, t) ==
    LET tenv == type_env_add(self.type_env, id, t)
    IN  IF ~type_check_in_env(t, self.type_env)
        THEN Out([self EXCEPT !.type_env = tenv],
                 Ret("eval", "ToplevelLet", id, "TypecheckError", "-"),
                 <<Stage("parse", TRUE), Stage("typecheck", FALSE)>>)
        ELSE IF ~transform_ok(t)
        THEN Out([self EXCEPT !.type_env = tenv],
                 Ret("eval", "ToplevelLet", id, "ImportError", "-"),
                 <<Stage("parse", TRUE), Stage("typecheck", TRUE),
                   Stage("transform", FALSE)>>)
        ELSE LET r == eval_env_add(self.thunks, self.eval_env, id,
                                   transform(t), self.eval_env)
             IN  Out([type_env |-> tenv, eval_env |-> r.env, thunks |-> r.heap],
                     Ret("eval", "ToplevelLet", id, "Bound", "-"),
                     <<Stage("parse", TRUE), Stage("typecheck", TRUE),
                       Stage("transform", TRUE)>>)

\* eval_toplevel_let that binds a definition with no annotation to the
\* unification variable the typechecker made for it.
eval_toplevel_let_unresolved(self, id, t) ==
    IF ~type_check_in_env(t, self.type_env)
    THEN Out(self, Ret("eval", "ToplevelLet", id, "TypecheckError", "-"),
             <<Stage("parse", TRUE), Stage("typecheck", FALSE)>>)
    ELSE LET ty == apparent_type(t, self.type_env)
             tenv == Extend(self.type_env, id, IF ty = "Dyn" THEN "Ptr" ELSE ty)
         IN  IF ~transform_ok(t)
             THEN Out([self EXCEPT !.type_env = tenv],
                      Ret("eval", "ToplevelLet", id, "ImportError", "-"),
                      <<Stage("parse", TRUE), Stage("typecheck", TRUE),
                        Stage("transform", FALSE)>>)
             ELSE LET local_env == self.eval_env
                      r == eval_env_add(self.thunks, self.eval_env, id,
                                        transform(t), local_env)
                  IN  Out([type_env |-> tenv, eval_env |-> r.env, thunks |-> r.heap],
                          Ret("eval", "ToplevelLet", id, "Bound", "-"),
                          <<Stage("parse", TRUE), Stage("typecheck", TRUE),
                            Stage("transform", TRUE)>>)

\* eval_toplevel_let that evaluates the definition when it binds it.
eval_toplevel_let_eager(self, id, t) ==
    IF ~type_check_in_env(t, self.type_env)
    THEN Out(self, Ret("eval", "ToplevelLet", id, "TypecheckError", "-"),
             <<Stage("parse", TRUE), Stage("typecheck", FALSE)>>)
    ELSE LET tenv == type_env_add(self.type_env, id, t)
         IN  IF ~transform_ok(t)
             THEN Out([self EXCEPT !.type_env = tenv],
                      Ret("eval", "ToplevelLet", id, "ImportError", "-"),
                      <<Stage("parse", TRUE), Stage("typecheck", TRUE),
                        Stage("transform", FALSE)>>)
             ELSE LET local_env == self.eval_env
                      r == eval_env_add(self.thunks, self.eval_env, id,
                                        transform(t), local_env)
                      v == force(r.heap, r.env[id])
                  IN  IF v.ok
                      THEN Out([type_env |-> tenv, eval_env |-> r.env, thunks |-> v.heap],
                               Ret("eval", "ToplevelLet", id, "Bound", "-"),
                               <<Stage("parse", TRUE), Stage("typecheck", TRUE),
                                 Stage("transform", TRUE), Stage("evaluate", TRUE)>>)
                      ELSE Out([self EXCEPT !.type_env = tenv],
                               Ret("eval", "ToplevelLet", id, "EvalError", "-"),
                               <<Stage("parse", TRUE), Stage("typecheck", TRUE),
                                 Stage("transform", TRUE), Stage("evaluate", FALSE)>>)

\* eval_toplevel_let that closes the definition over the environment that
\* already holds the new binding.
eval_toplevel_let_recursive(self, id, t) ==
    IF ~type_check_in_env(t, self.type_env)
    THEN Out(self, Ret("eval", "ToplevelLet", id, "TypecheckError", "-"),
             <<Stage("parse", TRUE), Stage("typecheck", FALSE)>>)
    ELSE LET tenv == type_env_add(self.type_env, id, t)
         IN  IF ~transform_ok(t)
             THEN Out([self EXCEPT !.type_env = tenv],
                      Ret("eval", "ToplevelLet", id, "ImportError", "-"),
                      <<Stage("parse", TRUE), Stage("typecheck", TRUE),
                        Stage("transform", FALSE)>>)
             ELSE LET local_env == Extend(self.eval_env, id, Len(self.thunks) + 1)
                      r == eval_env_add(self.thunks, self.eval_env, id,
                                        transform(t), local_env)
                  IN  Out([type_env |-> tenv, eval_env |-> r.env, thunks |-> r.heap],
                          Ret("eval", "ToplevelLet", id, "Bound", "-"),
                          <<Stage("parse", TRUE), Stage("typecheck", TRUE),
                            Stage("transform", TRUE)>>)

\* REPL::eval, the arm ExtendedTerm::ToplevelLet(id, t).
eval_toplevel_let(self, id, t) ==
    IF ~type_check_in_env(t, self.type_env)
    THEN Out(self, Ret("eval", "ToplevelLet", id, "TypecheckError", "-"),
             <<Stage("parse", TRUE), Stage("typecheck", FALSE)>>)
    ELSE LET tenv == type_env_add(self.type_env, id, t)
         IN  IF ~transform_ok(t)
             THEN Out([self EXCEPT !.type_env = tenv],
                      Ret("eval", "ToplevelLet", id, "ImportError", "-"),
                      <<Stage("parse", TRUE), Stage("typecheck", TRUE),
                        Stage("transform", FALSE)>>)
             ELSE LET local_env == self.eval_env
                      r == eval_env_add(self.thunks, self.eval_env, id,
                                        transform(t), local_env)
                  IN  Out([type_env |-> tenv, eval_env |-> r.env, thunks |-> r.heap],
                          Ret("eval", "ToplevelLet", id, "Bound", "-"),
                          <<Stage("parse", TRUE), Stage("typecheck", TRUE),
                            Stage("transform", TRUE)>>)

\* REPL::eval
eval(self, exp) ==
    CASE exp.k = "ParseError" ->
            Out(self, Ret("eval", "ParseError", "-", "ParseError", "-"),
                <<Stage("parse", FALSE)>>)
      [] exp.k = "RichTerm" -> eval_rich_term(self, exp.t)
      [] exp.k = "ToplevelLet" -> eval_toplevel_let(self, exp.id, exp.t)

\* Cache::transform_inner on a record: every field is transformed.
transform_inner_ok(fields) == \A id \in DOMAIN fields : transform_ok(fields[id])

\* load with the typing environment extended before the record is transformed.
load_adds_before_transform(self, file) ==
    CASE file.k = "IOError" ->
            Out(self, Ret("load", "-", "-", "IOError", "-"),
                <<Stage("add_file", FALSE)>>)
      [] file.k = "ParseError" ->
            Out(self, Ret("load", "-", "-", "ParseError", "-"),
                <<Stage("add_file", TRUE), Stage("parse", FALSE)>>)
      [] file.k = "Term" ->
            Out(self, Ret("load", file.t[1], "-", "EvalError", "-"),
                <<Stage("add_file", TRUE), Stage("parse", TRUE),
                  Stage("is_record", FALSE)>>)
      [] file.k = "Record" ->
            IF ~transform_inner_ok(file.fields)
            THEN Out([self EXCEPT !.type_env = type_env_add_term(self.type_env, file.fields)],
                     Ret("load", "Record", "-", "ImportError", "-"),
                     <<Stage("add_file", TRUE), Stage("parse", TRUE),
                       Stage("is_record", TRUE), Stage("transform", FALSE)>>)
            ELSE LET tenv == type_env_add_term(self.type_env, file.fields)
                     r == eval_env_add_term(self.thunks, self.eval_env, file.fields)
                 IN  Out([type_env |-> tenv, eval_env |-> r.env, thunks |-> r.heap],
                         Ret("load", "Record", "-", "Loaded", file.fields),
                         <<Stage("add_file", TRUE), Stage("parse", TRUE),
                           Stage("is_record", TRUE), Stage("transform", TRUE)>>)

\* load with the record loaded into an empty evaluation environment.
load_replaces_env(self, file) ==
    CASE file.k = "IOError" ->
            Out(self, Ret("load", "-", "-", "IOError", "-"),
                <<Stage("add_file", FALSE)>>)
      [] file.k = "ParseError" ->
            Out(self, Ret("load", "-", "-", "ParseError", "-"),
                <<Stage("add_file", TRUE), Stage("parse", FALSE)>>)
      [] file.k = "Term" ->
            Out(self, Ret("load", file.t[1], "-", "EvalError", "-"),
                <<Stage("add_file", TRUE), Stage("parse", TRUE),
                  Stage("is_record", FALSE)>>)
      [] file.k = "Record" ->
            IF ~transform_inner_ok(file.fields)
            THEN Out(self, Ret("load", "Record", "-", "ImportError", "-"),
                     <<Stage("add_file", TRUE), Stage("parse", TRUE),
                       Stage("is_record", TRUE), Stage("transform", FALSE)>>)
            ELSE LET tenv == type_env_add_term(self.type_env, file.fields)
                     r == eval_env_add_term(self.thunks, EmptyEnv, file.fields)
                 IN  Out([type_env |-> tenv, eval_env |-> r.env, thunks |-> r.heap],
                         Ret("load", "Record", "-", "Loaded", file.fields),
                         <<Stage("add_file", TRUE), Stage("parse", TRUE),
                           Stage("is_record", TRUE), Stage("transform", TRUE)>>)

\* REPL::load.  The input of a file that is no record literal is named by the
\* kind of its term; a successful load returns the loaded record.
load(self, file) ==
    CASE file.k = "IOError" ->
            Out(self, Ret("load", "-", "-", "IOError", "-"),
                <<Stage("add_file", FALSE)>>)
      [] file.k = "ParseError" ->
            Out(self, Ret("load", "-", "-", "ParseError", "-"),
                <<Stage("add_file", TRUE), Stage("parse", FALSE)>>)
      [] file.k = "Term" ->
            Out(self, Ret("load", file.t[1], "-", "EvalError", "-"),
                <<Stage("add_file", TRUE), Stage("parse", TRUE),
                  Stage("is_record", FALSE)>>)
      [] file.k = "Record" ->
            IF ~transform_inner_ok(file.fields)
            THEN Out(self, Ret("load", "Record", "-", "ImportError", "-"),
                     <<Stage("add_file", TRUE), Stage("parse", TRUE),
                       Stage("is_record", TRUE), Stage("transform", FALSE)>>)
            ELSE LET tenv == type_env_add_term(self.type_env, file.fields)
                     r == eval_env_add_term(self.thunks, self.eval_env, file.fields)
                 IN  Out([type_env |-> tenv, eval_env |-> r.env, thunks |-> r.heap],
                         Ret("load", "Record", "-", "Loaded", file.fields),
                         <<Stage("add_file", TRUE), Stage("parse", TRUE),
                           Stage("is_record", TRUE), Stage("transform", TRUE)>>)

\* typecheck that records the type it found for x in the typing environment.
typecheck_binds(self, exp) ==
    IF exp.k # "RichTerm"
    THEN Out(self, Ret("typecheck", exp.k, "-", "ParseError", "-"),
             <<Stage("parse", FALSE)>>)
    ELSE IF ~type_check_in_env(exp.t, self.type_env)
    THEN Out(self, Ret("typecheck", exp.k, "-", "TypecheckError", "-"),
             <<Stage("parse", TRUE), Stage("typecheck", FALSE)>>)
    ELSE Out([self EXCEPT !.type_env = type_env_add(self.type_env, "x", exp.t)],
             Ret("typecheck", exp.k, "-", "Types", apparent_type(exp.t, self.type_env)),
             <<Stage("parse", TRUE), Stage("typecheck", TRUE)>>)

\* REPL::typecheck.  The input is parsed as a term: a toplevel let is a
\* parse error here.
typecheck(self, exp) ==
    IF exp.k # "RichTerm"
    THEN Out(self, Ret("typecheck", exp.k, "-", "ParseError", "-"),
             <<Stage("parse", FALSE)>>)
    ELSE IF ~type_check_in_env(exp.t, self.type_env)
    THEN Out(self, Ret("typecheck", exp.k, "-", "TypecheckError", "-"),
             <<Stage("parse", TRUE), Stage("typecheck", FALSE)>>)
    ELSE Out(self,
             Ret("typecheck", exp.k, "-", "Types", apparent_type(exp.t, self.type_env)),
             <<Stage("parse", TRUE), Stage("typecheck", TRUE)>>)

\* program::query(cache, file_id, global_env, None): prepare the input
\* (parse, typecheck against the typing environment of global_env,
\* transform), then evaluate it.
program_query(h, global_env, exp) ==
    IF exp.k # "RichTerm"
    THEN [heap |-> h, tag |-> "ParseError", val |-> "-",
          stages |-> <<Stage("parse", FALSE)>>]
    ELSE IF ~type_check_in_env(exp.t, mk_global(h, global_env))
    THEN [heap |-> h, tag |-> "TypecheckError", val |-> "-",
          stages |-> <<Stage("parse", TRUE), Stage("typecheck", FALSE)>>]
    ELSE IF ~transform_ok(exp.t)
    THEN [heap |-> h, tag |-> "ImportError", val |-> "-",
          stages |-> <<Stage("parse", TRUE), Stage("typecheck", TRUE),
                       Stage("transform", FALSE)>>]
    ELSE LET r == eval_closure(h, transform(exp.t), global_env)
         IN  [heap |-> r.heap, tag |-> IF r.ok THEN "Term" ELSE "EvalError",
              val |-> r.val,
              stages |-> <<Stage("parse", TRUE), Stage("typecheck", TRUE),
                           Stage("transform", TRUE), Stage("evaluate", r.ok)>>]

\* REPL::query
query(self, exp) ==
    LET q == program_query(self.thunks, self.eval_env, exp)
    IN  Out([self EXCEPT !.thunks = q.heap],
            Ret("query", exp.k, "-", q.tag, q.val), q.stages)

(***************************************************************************)
(* The backend as a state machine: any sequence of its operations.         *)
(***************************************************************************)
Self == [type_env |-> type_env, eval_env |-> eval_env, thunks |-> thunks]

\* The outcome of an operation fits the bound on the heap.
Fits(o) == Len(o.self.thunks) <= MaxThunks

Becomes(o) ==
    /\ Fits(o)
    /\ type_env' = o.self.type_env
    /\ eval_env' = o.self.eval_env
    /\ thunks' = o.self.thunks
    /\ ret' = o.ret
    /\ stages' = o.stages

\* What readline gives: Ok(line), or the errors Eof, Interrupted and any
\* other.
Readline(k, line) == [k |-> k, line |-> line]

InitBackend ==
    /\ type_env = new.type_env
    /\ eval_env = new.eval_env
    /\ thunks = new.thunks
    /\ ret = Ret("new", "-", "-", "Ok", "-")
    /\ stages = <<>>

None == [k |-> "None"]

\* Nothing is being edited, nothing was answered and no command was parsed.
InitNoEditor ==
    /\ input = <<>>
    /\ status = "None"
    /\ validation = "None"

\* Nothing was printed and no query report is asked for.
InitNoPrint ==
    /\ out = <<>>
    /\ qterm = None
    /\ attrs = None

\* The names of the sources are not followed.
InitNoCache ==
    /\ cache = <<>>
    /\ counter = 0

InitNoInput ==
    /\ InitNoEditor
    /\ answer = None
    /\ cmd_in = None
    /\ command = None
    /\ InitNoPrint
    /\ InitNoCache

\* A REPLImpl used through its interface, with no main loop around it.
\* No merge is under way.
NoMerge == [k |-> "None"]

\* No multi-way merge is under way.
InitNoFold ==
    /\ third = NoMerge
    /\ swapped = NoMerge
    /\ foldl = NoMerge
    /\ foldr = NoMerge

InitNoMerge ==
    /\ lhs = NoMerge
    /\ rhs = NoMerge
    /\ merged = NoMerge
    /\ InitNoFold

Init ==
    /\ InitBackend
    /\ pc = "none"
    /\ rl = Readline("none", <<>>)
    /\ reported = "-"
    /\ InitNoInput
    /\ InitNoMerge

LoadStdlib ==
    /\ \E ok \in BOOLEAN : Becomes(load_stdlib(Self, ok))
    /\ UNCHANGED <<frontend_vars, merge_vars>>

Eval ==
    /\ \E exp \in Exps : Becomes(eval(Self, exp))
    /\ UNCHANGED <<frontend_vars, merge_vars>>

Load ==
    /\ \E file \in Files : Becomes(load(Self, file))
    /\ UNCHANGED <<frontend_vars, merge_vars>>

Typecheck ==
    /\ \E exp \in TermExps : Becomes(typecheck(Self, exp))
    /\ UNCHANGED <<frontend_vars, merge_vars>>

Query ==
    /\ \E exp \in TermExps : Becomes(query(Self, exp))
    /\ UNCHANGED <<frontend_vars, merge_vars>>

Next == LoadStdlib \/ Eval \/ Load \/ Typecheck \/ Query

Spec == Init /\ [][Next]_vars

(***************************************************************************)
(* The claims about the backend.                                           *)
(***************************************************************************)
ErrorTags == {"ParseError", "TypecheckError", "ImportError", "EvalError", "IOError"}

\* C1: after any sequence of backend operations the identifiers bound in
\* the typing environment are exactly those bound in the evaluation
\* environment.
C1_EnvsInLockstep == DOMAIN type_env = DOMAIN eval_env

\* C2: eval of a toplevel let `let x = e` either returns Bound(x) with x
\* bound in both environments, or returns an error and leaves both
\* environments as they were.
C2_LetAtomic ==
    [][(ret'.op = "eval" /\ ret'.inp = "ToplevelLet") =>
          \/ /\ ret'.tag = "Bound"
             /\ ret'.id \in DOMAIN type_env'
             /\ ret'.id \in DOMAIN eval_env'
          \/ /\ ret'.tag \in ErrorTags
             /\ type_env' = type_env
             /\ eval_env' = eval_env]_vars

\* C3: when eval is given `let x = e` and e fails to typecheck, neither
\* environment is changed: x is added to neither.
C3_IllTypedLetNotBound ==
    [][(ret'.op = "eval" /\ ret'.inp = "ToplevelLet" /\ ret'.tag = "TypecheckError") =>
          /\ type_env' = type_env
          /\ eval_env' = eval_env]_vars

\* The last operation was a toplevel let of x whose definition refers to
\* the unbound y or is ill-typed, and was rejected by the typechecker.
C3_Witness ==
    /\ ret.op = "eval" /\ ret.inp = "ToplevelLet" /\ ret.tag = "TypecheckError"
    /\ ret.id = "x"
    /\ "y" \in DOMAIN type_env
    /\ stages = <<Stage("parse", TRUE), Stage("typecheck", FALSE)>>

\* C4: after a successful load every identifier of the environment is bound
\* to a definition that typechecks: a file whose record is ill-typed has
\* contributed nothing.
C4_LoadOnlyTypechecked ==
    (ret.op = "load" /\ ret.tag = "Loaded") =>
        \A id \in DOMAIN eval_env :
            type_check_in_env(thunks[eval_env[id]].body, type_env)

PipelineOrder == <<"parse", "typecheck", "transform", "evaluate">>

\* C5: the stages eval runs are parse, typecheck, transform, evaluate in
\* that order, each run only when every stage before it succeeded.
C5_StagesInOrder ==
    ret.op = "eval" =>
        /\ Len(stages) \in 1..Len(PipelineOrder)
        /\ \A i \in 1..Len(stages) :
              /\ stages[i].stage = PipelineOrder[i]
              /\ i < Len(stages) => stages[i].ok

\* eval ran the evaluator, and its definitions were forced.
C5_Witness ==
    /\ ret.op = "eval" /\ ret.inp = "RichTerm"
    /\ Len(stages) = 4
    /\ stages[4] = Stage("evaluate", FALSE)
    /\ \E a \in DOMAIN thunks : thunks[a].state = "evaluated"

\* C6: typecheck, query and eval of an input that is no toplevel let leave
\* the bindings of both environments as they are.
C6_ReadOnlyOps ==
    [][(\/ ret'.op \in {"typecheck", "query"}
        \/ ret'.op = "eval" /\ ret'.inp # "ToplevelLet") =>
          /\ type_env' = type_env
          /\ eval_env' = eval_env]_vars

\* typecheck succeeded on a term that refers to a bound identifier.
C6_Witness ==
    /\ ret.op = "typecheck" /\ ret.tag = "Types" /\ ret.val = "Num"
    /\ DOMAIN eval_env = {"y"}

\* C8: the memoization cell of a thunk is written at most once, and an
\* evaluated thunk is never changed again, however it is forced.
C8_EvaluatedOnce ==
    [][\A a \in DOMAIN thunks :
          /\ thunks'[a].runs <= 1
          /\ thunks[a].state = "evaluated" => thunks'[a] = thunks[a]]_vars

\* x was forced through the environment captured by y, and then once more
\* through the environment of the REPL.
C8_Witness ==
    /\ ret.op = "eval" /\ ret.inp = "RichTerm" /\ ret.tag = "Evaluated"
    /\ Len(thunks) = 2
    /\ thunks[2].body = Var("x") /\ thunks[2].env = [i \in {"x"} |-> 1]
    /\ thunks[2].state = "evaluated" /\ thunks[1].state = "evaluated"
    /\ eval_env = [i \in {"x", "y"} |-> IF i = "x" THEN 1 ELSE 2]

(***************************************************************************)
(* The claims about the bindings of toplevel lets.                         *)
(***************************************************************************)
\* C22: eval of a toplevel let never runs the evaluator: it never returns an
\* evaluation error, forces no thunk, and when the definition parses,
\* typechecks and is transformed it returns Bound(id) with the definition
\* stored unevaluated.
C22_LetNotEvaluated ==
    [][(ret'.op = "eval" /\ ret'.inp = "ToplevelLet") =>
          /\ ret'.tag # "EvalError"
          /\ \A i \in 1..Len(stages') : stages'[i].stage # "evaluate"
          /\ \A a \in DOMAIN thunks : thunks'[a] = thunks[a]
          /\ (Len(stages') = 3 /\ stages'[3].ok) <=> ret'.tag = "Bound"
          /\ ret'.tag = "Bound" =>
                /\ Len(thunks') = Len(thunks) + 1
                /\ thunks'[eval_env'[ret'.id]].state = "suspended"
                /\ thunks'[eval_env'[ret'.id]].runs = 0]_vars

\* x was bound to a definition whose evaluation fails.
C22_Witness ==
    /\ ret.op = "eval" /\ ret.inp = "ToplevelLet" /\ ret.tag = "Bound"
    /\ ret.id = "x"
    /\ thunks[eval_env["x"]].body = Fail
    /\ thunks[eval_env["x"]].state = "suspended"

evaluates_to_record(kind) ==
    \/ kind = "Record"
    \/ /\ kind # "Record"
       /\ eval_closure(<<>>, <<kind, "-">>, EmptyEnv) = EvalOk(<<>>, "record")

\* C16: load of a file that is read, parsed and transformed succeeds exactly
\* when the content of the file evaluates to a record, be it a record
\* literal or not.
C16_LoadEvaluatesToRecord ==
    (ret.op = "load" /\ ret.tag \in {"Loaded", "EvalError"}) =>
        (ret.tag = "Loaded" <=> evaluates_to_record(ret.inp))

\* C17: a load that fails (the file cannot be read or parsed, is no record,
\* or cannot be transformed) leaves the typing environment and the
\* evaluation environment as they were.
C17_FailedLoadKeepsEnvs ==
    [][(ret'.op = "load" /\ ret'.tag \in ErrorTags) =>
          /\ type_env' = type_env
          /\ eval_env' = eval_env
          /\ thunks' = thunks]_vars

\* The load of a record with an unresolvable import failed in a session
\* where y alone is bound.
C17_Witness ==
    /\ ret.op = "load" /\ ret.tag = "ImportError"
    /\ DOMAIN eval_env = {"y"}
    /\ DOMAIN type_env = {"y"}

\* C18: a load that succeeds returns the loaded record; every field of it
\* is then bound in both environments, in the evaluation environment to a
\* thunk of the field's term, and every other binding of before is kept.
C18_LoadBindsFields ==
    [][(ret'.op = "load" /\ ret'.tag = "Loaded") =>
          /\ ret'.val \in RecordFields
          /\ DOMAIN ret'.val \subseteq DOMAIN type_env'
          /\ DOMAIN ret'.val \subseteq DOMAIN eval_env'
          /\ \A id \in DOMAIN ret'.val :
                thunks'[eval_env'[id]].body = ret'.val[id]
          /\ \A id \in DOMAIN eval_env \ DOMAIN ret'.val :
                id \in DOMAIN eval_env' /\ eval_env'[id] = eval_env[id]
          /\ \A id \in DOMAIN type_env \ DOMAIN ret'.val :
                id \in DOMAIN type_env' /\ type_env'[id] = type_env[id]]_vars

\* A record with the field y was loaded in a session where x was bound.
C18_Witness ==
    /\ ret.op = "load" /\ ret.tag = "Loaded"
    /\ DOMAIN ret.val = {"y"}
    /\ DOMAIN eval_env = {"x", "y"}
    /\ DOMAIN type_env = {"x", "y"}
    /\ eval_env["x"] = 1

\* C19: after a successful load_stdlib the evaluation environment is that
\* of the standard library and the typing environment has the same
\* identifiers, each with the type of its definition; after a failed one
\* both environments are as before.
C19_StdlibPopulatesBoth ==
    [][ret'.op = "load_stdlib" =>
          IF ret'.tag = "Ok"
          THEN /\ DOMAIN eval_env' = StdIdents
               /\ DOMAIN type_env' = DOMAIN eval_env'
               /\ \A id \in DOMAIN eval_env' :
                     /\ thunks'[eval_env'[id]].body = StdlibFields[id]
                     /\ type_env'[id] = apparent_type(StdlibFields[id], EmptyEnv)
          ELSE /\ type_env' = type_env
               /\ eval_env' = eval_env
               /\ thunks' = thunks]_vars

\* The standard library was loaded in a session that had a binding.
C19_Witness ==
    /\ ret.op = "load_stdlib" /\ ret.tag = "Ok"
    /\ Len(thunks) = 2
    /\ eval_env = [i \in {"s"} |-> 2]
    /\ type_env = [i \in {"s"} |-> "Num"]

\* The types that hold no unification variable.
ResolvedTypes == {"Num", "Dyn"}

NonAscii == {"U+00E9"}

\* The length of a character in UTF-8.
len_utf8(c) == IF c \in NonAscii THEN 2 ELSE 1

RECURSIVE str_len(_)
\* str::len, in bytes.
str_len(s) == IF s = <<>> THEN 0 ELSE len_utf8(Head(s)) + str_len(Tail(s))

RECURSIVE str_find(_, _)
\* str::find(c): the byte offset of the first c, or -1 for None.
str_find(s, c) ==
    IF s = <<>> THEN -1
    ELSE IF Head(s) = c THEN 0
    ELSE LET r == str_find(Tail(s), c)
         IN  IF r = -1 THEN -1 ELSE len_utf8(Head(s)) + r

\* s.chars().take(n).collect()
chars_take(s, n) == IF n >= Len(s) THEN s ELSE SubSeq(s, 1, n)

\* s.chars().skip(n).collect()
chars_skip(s, n) == IF n >= Len(s) THEN <<>> ELSE SubSeq(s, n + 1, Len(s))

\* char::is_whitespace, on the characters of the model: space, tab and
\* newline.
is_whitespace(c) == c \in {" ", "\t", "\n"}

RECURSIVE trim_start(_)
trim_start(s) ==
    IF s # <<>> /\ is_whitespace(Head(s)) THEN trim_start(Tail(s)) ELSE s

RECURSIVE trim_end(_)
trim_end(s) ==
    IF s # <<>> /\ is_whitespace(s[Len(s)])
    THEN trim_end(SubSeq(s, 1, Len(s) - 1))
    ELSE s

\* str::trim
trim(s) == trim_end(trim_start(s))

\* str::starts_with(c)
starts_with(s, c) == s # <<>> /\ Head(s) = c

S_load == <<"l", "o", "a", "d">>
S_l == <<"l">>
S_typecheck == <<"t", "y", "p", "e", "c", "h", "e", "c", "k">>
S_tc == <<"t", "c">>
S_query == <<"q", "u", "e", "r", "y">>
S_q == <<"q">>
S_help == <<"h", "e", "l", "p">>
S_qmark == <<"?">>
S_h == <<"h">>
S_exit == <<"e", "x", "i", "t">>
S_e == <<"e">>

(***************************************************************************)
(* The commands (mod command).                                             *)
(***************************************************************************)
CommandTypes == {"Load", "Typecheck", "Query", "Help", "Exit"}

\* from_str that does not know the alias `?` of help.
command_type_from_str_no_qmark(s) ==
    CASE s \in {S_load, S_l} -> "Load"
      [] s \in {S_typecheck, S_tc} -> "Typecheck"
      [] s \in {S_query, S_q} -> "Query"
      [] s \in {S_help, S_h} -> "Help"
      [] s \in {S_exit, S_e} -> "Exit"
      [] OTHER -> "Unknown"

\* <CommandType as FromStr>::from_str; "Unknown" for Err(UnknownCommandError).
command_type_from_str(s) ==
    CASE s \in {S_load, S_l} -> "Load"
      [] s \in {S_typecheck, S_tc} -> "Typecheck"
      [] s \in {S_query, S_q} -> "Query"
      [] s \in {S_help, S_qmark, S_h} -> "Help"
      [] s \in {S_exit, S_e} -> "Exit"
      [] OTHER -> "Unknown"

\* CommandType::aliases
aliases(c) ==
    CASE c = "Load" -> <<S_l>>
      [] c = "Typecheck" -> <<S_tc>>
      [] c = "Query" -> <<S_q>>
      [] c = "Help" -> <<S_h, S_qmark>>
      [] c = "Exit" -> <<S_e>>

\* <CommandType as Display>::fmt
display(c) ==
    CASE c = "Load" -> S_load
      [] c = "Typecheck" -> S_typecheck
      [] c = "Query" -> S_query
      [] c = "Help" -> S_help
      [] c = "Exit" -> S_exit

\* require_arg that takes an argument of spaces for an argument.
require_arg_nonempty(arg) == arg # <<>>

\* require_arg(cmd, arg, msg_opt): whether the argument is there.
require_arg(arg) == trim(arg) # <<>>

\* Ok(command) with its argument; Err(UnknownCommand(word)) keeps the word in
\* arg and Err(MissingArg {cmd, ..}) the command in typ.
CmdOk(typ, arg) == [ok |-> TRUE, typ |-> typ, arg |-> arg, err |-> "-"]
UnknownCommand(word) == [ok |-> FALSE, typ |-> "-", arg |-> word, err |-> "UnknownCommand"]
MissingArg(cmd) == [ok |-> FALSE, typ |-> cmd, arg |-> <<>>, err |-> "MissingArg"]

\* <Command as FromStr>::from_str.  Help(None) is Help with the empty
\* argument: Help(Some(a)) always carries a non-empty a.
command_from_str(s) ==
    LET found == str_find(s, " ")
        cmd_end == IF found = -1 THEN str_len(s) ELSE found
        cmd_str == chars_take(s, cmd_end)
        cmd == command_type_from_str(cmd_str)
        arg == chars_skip(s, cmd_end + 1)
    IN  CASE cmd = "Unknown" -> UnknownCommand(cmd_str)
          [] cmd \in {"Load", "Typecheck", "Query"} ->
                IF require_arg(arg) THEN CmdOk(cmd, arg) ELSE MissingArg(cmd)
          [] cmd = "Exit" -> CmdOk("Exit", <<>>)
          [] cmd = "Help" -> CmdOk("Help", trim(arg))

\* Command::typ, on a command that was parsed.
command_typ(c) ==
    CASE c.typ = "Load" -> "Load"
      [] c.typ = "Typecheck" -> "Typecheck"
      [] c.typ = "Query" -> "Query"
      [] c.typ = "Help" -> "Help"
      [] c.typ = "Exit" -> "Exit"

(***************************************************************************)
(* Source texts and files.  The grammar is outside repl.rs: the parser is  *)
(* the table of the texts the model uses, every other text being a parse   *)
(* error.                                                                  *)
(***************************************************************************)
RECURSIVE squeeze(_)
\* The text as the lexer sees it: a run of whitespace separates two tokens
\* and is one space, and none is needed around `=`.
squeeze(s) ==
    IF s = <<>> THEN <<>>
    ELSE IF is_whitespace(Head(s))
    THEN LET r == squeeze(trim_start(Tail(s)))
         IN  IF r = <<>> \/ Head(r) = "=" THEN r ELSE <<" ">> \o r
    ELSE IF Head(s) = "="
    THEN <<"=">> \o squeeze(trim_start(Tail(s)))
    ELSE <<Head(s)>> \o squeeze(Tail(s))

RECURSIVE count(_, _)
\* The number of occurrences of the character c in s.
count(s, c) ==
    IF s = <<>> THEN 0
    ELSE (IF Head(s) = c THEN 1 ELSE 0) + count(Tail(s), c)

\* ExtendedTermParser::parse on the text src.
parse_extended(src) ==
    LET t == trim(squeeze(src))
    IN  CASE t = <<"1">> -> RichTerm(Num1)
          [] t = <<"2">> -> RichTerm(Num2)
          [] t = <<"x">> -> RichTerm(Var("x"))
          [] t = <<"y">> -> RichTerm(Var("y"))
          [] t = <<"1", " ", "1">> -> RichTerm(Fail)
          [] t = <<"1", ":", "S", "t", "r">> -> RichTerm(IllTyped)
          [] t = <<"i", "m", "p", "o", "r", "t", " ", "\"", "m", "\"">> -> RichTerm(Import)
          [] t = <<"l", "e", "t", " ", "x", "=", "1">> -> ToplevelLet("x", Num1)
          [] t = <<"l", "e", "t", " ", "y", "=", "x">> -> ToplevelLet("y", Var("x"))
          [] t = <<"l", "e", "t", " ", "y", "=", "i", "m", "p", "o", "r", "t", " ", "\"", "m", "\"">> -> ToplevelLet("y", Import)
          [] OTHER -> ParseErr

\* ParseError::from_lalrpop on a text the parser rejects: the kind of the
\* error.  A closing brace that nothing opened is the lexer's
\* UnmatchedCloseBrace; a text that stops after `=` or inside braces fails
\* at the end of the input; any other is an unexpected token.
parse_error_kind(src) ==
    LET t == trim(squeeze(src))
    IN  CASE count(t, "}") > count(t, "{") -> "UnmatchedCloseBrace"
          [] count(t, "}") <= count(t, "{")
             /\ (count(t, "{") > count(t, "}") \/ (t # <<>> /\ t[Len(t)] = "=")) ->
                "UnexpectedEOF"
          [] OTHER -> "UnexpectedToken"

\* The files of the file system, by path; every other path is no file.
file_at(path) ==
    CASE path = <<"f">> -> FileRecord([i \in {"x"} |-> Num1])
      [] path = <<"g">> -> FileTerm(Num1)
      [] path = <<"b">> -> FileGarbage
      [] OTHER -> FileMissing

\* The lines the terminal hands to the main loop.
Lines ==
    { <<>>,
      <<" ">>,
      <<"1">>,
      <<"x">>,
      <<"y">>,
      <<"1", " ", "1">>,
      <<")">>,
      <<"1", ":", "S", "t", "r">>,
      <<"l", "e", "t", " ", "x", "=", "1">>,
      <<"l", "e", "t", " ", "y", "=", "x">>,
      <<"l", "e", "t", " ", "y", "=", "i", "m", "p", "o", "r", "t", " ", "\"", "m", "\"">>,
      <<":", "l", " ", "f">>,
      <<":", "l", "o", "a", "d", " ", "g">>,
      <<":", "l", "o", "a", "d">>,
      <<":", "l", " ", "n">>,
      <<":", "l", "o", "a", "d", " ", "b">>,
      <<":", "t", "c", " ", "x">>,
      <<":", "t", "y", "p", "e", "c", "h", "e", "c", "k", " ", ")">>,
      <<":", "q", " ", "x">>,
      <<":", "q", "u", "e", "r", "y", " ", "1", " ", "1">>,
      <<":", "q">>,
      <<":", "h", "e", "l", "p">>,
      <<":", "h", " ", "q">>,
      <<":", "?", " ", "z", "z">>,
      <<":", "e", "x", "i", "t">>,
      <<":", "e">>,
      <<":", "f", "o", "o", " ", "1">>,
      <<":">>,
      <<":", "U+00E9", " ", "x">> }

(***************************************************************************)
(* The terminal frontend (mod rustyline_frontend).                         *)
(***************************************************************************)
Iter(o, p, rep) == [self |-> o.self, ret |-> o.ret, stages |-> o.stages,
                    pc |-> p, reported |-> rep]

\* The error of a backend result, as program::report gets it; "-" for Ok.
err_of(o) == IF o.ret.tag \in ErrorTags THEN o.ret.tag ELSE "-"

NoOp(self, tag) == Out(self, Ret("repl", "-", "-", tag, "-"), <<>>)

\* The arm of the main loop for a line starting with `:`.
repl_command(self, line) ==
    LET cmd == command_from_str(chars_skip(line, 1))
    IN  CASE ~cmd.ok -> Iter(NoOp(self, cmd.err), "loop", cmd.err)
          [] cmd.ok /\ cmd.typ = "Load" ->
                LET o == load(self, file_at(cmd.arg))
                IN  Iter(o, "loop", err_of(o))
          [] cmd.ok /\ cmd.typ = "Typecheck" ->
                LET o == typecheck(self, parse_extended(cmd.arg))
                IN  Iter(o, "loop", err_of(o))
          [] cmd.ok /\ cmd.typ = "Query" ->
                LET o == query(self, parse_extended(cmd.arg))
                IN  Iter(o, "loop", err_of(o))
          [] cmd.ok /\ cmd.typ = "Help" -> Iter(NoOp(self, "Help"), "loop", "-")
          [] cmd.ok /\ cmd.typ = "Exit" -> Iter(NoOp(self, "Exit"), "exited", "-")

\* repl_iteration with an interrupt handled like the end of input.
repl_iteration_interrupt_ends(self, r) ==
    CASE r.k = "Ok" /\ trim(r.line) = <<>> -> Iter(NoOp(self, "Blank"), "loop", "-")
      [] r.k = "Ok" /\ trim(r.line) # <<>> /\ starts_with(r.line, ":") ->
            repl_command(self, r.line)
      [] r.k = "Ok" /\ trim(r.line) # <<>> /\ ~starts_with(r.line, ":") ->
            LET o == eval(self, parse_extended(r.line))
            IN  Iter(o, "loop", err_of(o))
      [] r.k \in {"Eof", "Interrupted"} -> Iter(NoOp(self, r.k), "exited", "-")
      [] r.k = "Err" -> Iter(NoOp(self, "IOError"), "loop", "IOError")

\* One iteration of the main loop of rustyline_frontend::repl, on what
\* readline gave.
repl_iteration(self, r) ==
    CASE r.k = "Ok" /\ trim(r.line) = <<>> -> Iter(NoOp(self, "Blank"), "loop", "-")
      [] r.k = "Ok" /\ trim(r.line) # <<>> /\ starts_with(r.line, ":") ->
            repl_command(self, r.line)
      [] r.k = "Ok" /\ trim(r.line) # <<>> /\ ~starts_with(r.line, ":") ->
            LET o == eval(self, parse_extended(r.line))
            IN  Iter(o, "loop", err_of(o))
      [] r.k = "Eof" -> Iter(NoOp(self, "Eof"), "exited", "-")
      [] r.k = "Interrupted" -> Iter(NoOp(self, "Interrupted"), "loop", "-")
      [] r.k = "Err" -> Iter(NoOp(self, "IOError"), "loop", "IOError")

ReadlineResults ==
    {Readline("Ok", l) : l \in Lines}
    \cup {Readline("Eof", <<>>), Readline("Interrupted", <<>>), Readline("Err", <<>>)}

\* rustyline_frontend::repl before its loop: a new REPLImpl.
InitRepl ==
    /\ InitBackend
    /\ pc = "start"
    /\ rl = Readline("none", <<>>)
    /\ reported = "-"
    /\ InitNoInput
    /\ InitNoMerge

\* rustyline_frontend::repl up to its loop: the standard library is loaded,
\* and a failure ends the REPL with InitError::Stdlib.
ReplStart ==
    /\ pc = "start"
    /\ \E ok \in BOOLEAN :
          LET o == load_stdlib(Self, ok)
          IN  /\ Becomes(o)
              /\ pc' = IF ok THEN "loop" ELSE "init_error"
              /\ reported' = IF ok THEN "-" ELSE "Error"
    /\ UNCHANGED <<rl, merge_vars, editor_vars, answer, command_vars,
                 print_vars, cache_vars>>

\* One turn of the loop.
ReplIteration ==
    /\ pc = "loop"
    /\ \E r \in ReadlineResults :
          LET i == repl_iteration(Self, r)
          IN  /\ Becomes(i)
              /\ pc' = i.pc
              /\ reported' = i.reported
              /\ rl' = r
    /\ UNCHANGED <<merge_vars, editor_vars, answer, command_vars,
                 print_vars, cache_vars>>

NextRepl == ReplStart \/ ReplIteration

SpecRepl == InitRepl /\ [][NextRepl]_vars

(***************************************************************************)
(* The claim about the main loop.                                          *)
(***************************************************************************)
\* The line is the exit command: `:exit` or `:e`, alone or followed by a
\* space and anything.
is_exit_line(l) ==
    \E w \in {S_exit, S_e} :
        \/ l = <<":">> \o w
        \/ /\ Len(l) > Len(w) + 1
           /\ SubSeq(l, 1, Len(w) + 2) = <<":">> \o w \o <<" ">>

\* The errors an iteration can end with.
LoopErrors == ErrorTags \cup {"UnknownCommand", "MissingArg"}

\* The line is one an error is known to come from, with the error.
known_error(l) ==
    CASE l = <<")">> -> "ParseError"
      [] l = <<"1", ":", "S", "t", "r">> -> "TypecheckError"
      [] l = <<"1", " ", "1">> -> "EvalError"
      [] l = <<":", "f", "o", "o", " ", "1">> -> "UnknownCommand"
      [] l = <<":", "l", "o", "a", "d">> -> "MissingArg"
      [] l = <<":", "l", " ", "n">> -> "IOError"
      [] OTHER -> "-"

\* C7: in the main loop every error of an input is reported and the loop
\* goes on reading; the loop ends only on the exit command or on the end
\* of input, and an interrupt does not end it.
C7_LoopRecovers ==
    [][pc = "loop" =>
          /\ pc' \in {"loop", "exited"}
          /\ pc' = "exited" =>
                \/ rl'.k = "Eof"
                \/ rl'.k = "Ok" /\ is_exit_line(rl'.line)
          /\ rl'.k = "Interrupted" => pc' = "loop" /\ reported' = "-"
          /\ rl'.k = "Err" => pc' = "loop" /\ reported' = "IOError"
          /\ ret'.tag \in LoopErrors => pc' = "loop" /\ reported' = ret'.tag
          /\ (rl'.k = "Ok" /\ known_error(rl'.line) # "-") =>
                pc' = "loop" /\ reported' = known_error(rl'.line)]_vars

\* An evaluation error was reported in a session with a binding, and the
\* loop reads on.
C7_Witness ==
    /\ pc = "loop"
    /\ rl = Readline("Ok", <<"1", " ", "1">>)
    /\ reported = "EvalError"
    /\ "x" \in DOMAIN eval_env

(***************************************************************************)
(* The multiline input of the terminal: the editor asks the validator      *)
(* whenever the user ends a line, and goes on editing while the input is   *)
(* invalid.                                                                *)
(***************************************************************************)
\* The number of lines an input may have.
MaxInputLines == 2

\* The lines the user may type.
InputLines ==
    Lines \cup { <<"l", "e", "t", " ", "x", "=">>,
                 <<"{">>,
                 <<"}">>,
                 <<"1", " ", "}">>,
                 <<":", "{">> }

\* InputParser::parse: the InputStatus of an input.
input_parser_parse(inp) ==
    IF starts_with(inp, ":") \/ trim(inp) = <<>>
    THEN "Command"
    ELSE IF parse_extended(inp).k # "ParseError"
    THEN "Complete"
    ELSE IF parse_error_kind(inp) \in {"UnexpectedEOF", "UnmatchedCloseBrace"}
    THEN "Partial"
    ELSE "Failed"

\* <InputParser as Validator>::validate
validate(inp) == IF input_parser_parse(inp) = "Partial" THEN "Invalid" ELSE "Valid"

InitInput ==
    /\ InitBackend
    /\ pc = "readline"
    /\ rl = Readline("none", <<>>)
    /\ reported = "-"
    /\ InitNoInput
    /\ InitNoMerge

\* The user ends a line: it is the input, or is added to the input that was
\* invalid so far, and the editor asks the validator.
EnterLine ==
    /\ validation # "Valid"
    /\ status = "None" \/ count(input, "\n") + 1 < MaxInputLines
    /\ \E l \in InputLines :
          LET text == IF status = "None" THEN l ELSE input \o <<"\n">> \o l
          IN  /\ input' = text
              /\ status' = input_parser_parse(text)
              /\ validation' = validate(text)
    /\ UNCHANGED <<backend_vars, pc, rl, reported, answer, command_vars, merge_vars,
                 print_vars, cache_vars>>

\* The input was valid: readline returns it.
ReturnLine ==
    /\ validation = "Valid"
    /\ rl' = Readline("Ok", input)
    /\ input' = <<>>
    /\ status' = "None"
    /\ validation' = "None"
    /\ UNCHANGED <<backend_vars, pc, reported, answer, command_vars, merge_vars,
                 print_vars, cache_vars>>

NextInput == EnterLine \/ ReturnLine

SpecInput == InitInput /\ [][NextInput]_vars

\* The input fails to parse with an unexpected end of input.
unexpected_end(inp) ==
    /\ parse_extended(inp).k = "ParseError"
    /\ parse_error_kind(inp) = "UnexpectedEOF"

\* C13: the validator asks for a continuation line (parse gives Partial,
\* validate gives Invalid) exactly when the input does not start with `:`,
\* is not blank and fails to parse with an unexpected end of input; an
\* input starting with `:` and an input failing with another parse error
\* are ended.
C13_PartialIffUnexpectedEnd ==
    status # "None" =>
        /\ status = "Partial" <=>
              (~starts_with(input, ":") /\ trim(input) # <<>> /\ unexpected_end(input))
        /\ validation = "Invalid" <=> status = "Partial"
        /\ starts_with(input, ":") => validation = "Valid"

(***************************************************************************)
(* The UI-agnostic frontend (mod simple_frontend) and its WASM wrapper.    *)
(***************************************************************************)
\* Ok(InputResult) is named by its variant, Err(InputError) by its variant;
\* tag is the WASMResultTag of the WASMInputResult made of it.
Answer(result, tag) == [k |-> "Answer", result |-> result, tag |-> tag]

\* From<InputResult> for WASMInputResult, and WASMInputResult::error.
wasm_input_result(result) ==
    CASE result = "Success" -> Answer(result, "Success")
      [] result = "Blank" -> Answer(result, "Blank")
      [] result = "Partial" -> Answer(result, "Partial")
      [] result \in {"NickelError", "Other"} -> Answer(result, "Error")

\* What input gives: the backend after it, the answer, and in out the text
\* of a Success that print_help wrote (the other texts are left out).
Input(o, result) == [self |-> o.self, ret |-> o.ret, stages |-> o.stages,
                     answer |-> wasm_input_result(result), out |-> <<>>]

\* The result of a backend operation as an InputResult.
input_result_of(o) == IF err_of(o) = "-" THEN "Success" ELSE "NickelError"

\* A line of the help text: what it is and the words it names.
HelpLine(kind, items) == [kind |-> kind, items |-> items]

\* print_aliases inside print_help: the aliases when there are any, then an
\* empty line.
print_aliases(c) ==
    (IF aliases(c) # <<>> THEN <<HelpLine("Aliases", aliases(c))>> ELSE <<>>)
    \o <<HelpLine("", <<>>)>>

\* print_help(out, arg), None being the empty argument: the lines written.
print_help(arg) ==
    IF arg # <<>>
    THEN LET c == command_type_from_str(arg)
         IN  IF c = "Unknown"
             THEN << HelpLine("Unknown command", <<arg>>),
                     HelpLine("Available commands",
                              <<S_qmark, S_help, S_query, S_load, S_typecheck>>) >>
             ELSE <<HelpLine("Usage", <<display(c)>>)>>
                  \o print_aliases(c)
                  \o <<HelpLine("Description", <<display(c)>>)>>
    ELSE << HelpLine("Available commands",
                     <<S_help, S_query, S_load, S_typecheck, S_exit>>) >>

\* simple_frontend::input with a `:load` that is handed to the backend.
simple_command_loads(self, line) ==
    LET c == command_from_str(chars_skip(line, 1))
    IN  CASE ~c.ok -> Input(NoOp(self, c.err), "NickelError")
          [] c.ok /\ c.typ = "Load" ->
                LET o == load(self, file_at(c.arg))
                IN  Input(o, input_result_of(o))
          [] c.ok /\ c.typ = "Typecheck" ->
                LET o == typecheck(self, parse_extended(c.arg))
                IN  Input(o, input_result_of(o))
          [] c.ok /\ c.typ = "Query" ->
                LET o == query(self, parse_extended(c.arg))
                IN  Input(o, input_result_of(o))
          [] c.ok /\ c.typ = "Help" ->
                [Input(NoOp(self, "Help"), "Success") EXCEPT !.out = print_help(c.arg)]
          [] c.ok /\ c.typ = "Exit" -> Input(NoOp(self, "Exit"), "Success")

\* simple_frontend::input, the arm of a line starting with `:`.
simple_command(self, line) ==
    LET c == command_from_str(chars_skip(line, 1))
    IN  CASE ~c.ok -> Input(NoOp(self, c.err), "NickelError")
          [] c.ok /\ c.typ = "Load" -> Input(NoOp(self, "LoadDisabled"), "Other")
          [] c.ok /\ c.typ = "Typecheck" ->
                LET o == typecheck(self, parse_extended(c.arg))
                IN  Input(o, input_result_of(o))
          [] c.ok /\ c.typ = "Query" ->
                LET o == query(self, parse_extended(c.arg))
                IN  Input(o, input_result_of(o))
          [] c.ok /\ c.typ = "Help" ->
                [Input(NoOp(self, "Help"), "Success") EXCEPT !.out = print_help(c.arg)]
          [] c.ok /\ c.typ = "Exit" -> Input(NoOp(self, "Exit"), "Success")

\* simple_frontend::input, and repl_input around it.
simple_input(self, line) ==
    IF trim(line) = <<>>
    THEN Input(NoOp(self, "Blank"), "Blank")
    ELSE IF starts_with(line, ":")
    THEN simple_command(self, line)
    ELSE LET o == eval(self, parse_extended(line))
         IN  Input(o, input_result_of(o))

InitSimple ==
    /\ InitBackend
    /\ pc = "init"
    /\ rl = Readline("none", <<>>)
    /\ reported = "-"
    /\ InitNoInput
    /\ InitNoMerge

\* repl_init: a new REPLImpl with the standard library loaded; the state is
\* handed out also when loading it failed.
ReplInit ==
    /\ pc = "init"
    /\ \E ok \in BOOLEAN :
          LET o == load_stdlib(Self, ok)
          IN  /\ Becomes(o)
              /\ pc' = "ready"
              /\ reported' = IF ok THEN "-" ELSE "Error"
    /\ UNCHANGED <<rl, editor_vars, answer, command_vars, merge_vars,
                 print_vars, cache_vars>>

\* repl_input on a line.
ReplInput ==
    /\ pc = "ready"
    /\ \E line \in InputLines :
          LET i == simple_input(Self, line)
          IN  /\ Becomes(i)
              /\ answer' = i.answer
              /\ out' = i.out
              /\ rl' = Readline("Ok", line)
    /\ UNCHANGED <<pc, reported, editor_vars, command_vars, merge_vars,
                 qterm, attrs, cache_vars>>

NextSimple == ReplInit \/ ReplInput

SpecSimple == InitSimple /\ [][NextSimple]_vars

\* The line is an incomplete expression: not blank, no command, and its
\* parse fails with an unexpected end of input.
incomplete(l) ==
    /\ trim(l) # <<>>
    /\ ~starts_with(l, ":")
    /\ unexpected_end(l)

\* C14: simple_frontend::input answers an incomplete expression with
\* Partial, and repl_input with the tag Partial, not with an error.
C14_IncompleteIsPartial ==
    (answer # None /\ incomplete(rl.line)) =>
        /\ answer.result = "Partial"
        /\ answer.tag = "Partial"

(***************************************************************************)
(* The claims about :help and :load in the UI-agnostic frontend.           *)
(***************************************************************************)
\* The line is `:help` or one of its aliases, alone or with an argument
\* that is no command.
help_without_command(l) ==
    \E w \in {S_help, S_h, S_qmark} :
        \/ l = <<":">> \o w
        \/ /\ Len(l) > Len(w) + 2
           /\ SubSeq(l, 1, Len(w) + 2) = <<":">> \o w \o <<" ">>
           /\ trim(SubSeq(l, Len(w) + 3, Len(l))) # <<>>
           /\ command_type_from_str(trim(SubSeq(l, Len(w) + 3, Len(l)))) = "Unknown"

\* The line of the help text names the command c by its full name.
names_command(line, c) == \E j \in DOMAIN line.items : line.items[j] = display(c)

\* C26: print_help called without an argument, or with an argument that is
\* not a command, shows the list of available commands, and the list names
\* every command of the REPL: help, query, load, typecheck and exit.
C26_HelpListsEveryCommand ==
    (answer # None /\ help_without_command(rl.line)) =>
        \E i \in DOMAIN out :
            /\ out[i].kind = "Available commands"
            /\ \A c \in CommandTypes : names_command(out[i], c)

\* The line is a well-formed `:load <file>`: the command or its alias, a
\* space, and a path that is not blank.
is_load_line(l) ==
    \E w \in {S_load, S_l} :
        /\ Len(l) > Len(w) + 2
        /\ SubSeq(l, 1, Len(w) + 2) = <<":">> \o w \o <<" ">>
        /\ trim(SubSeq(l, Len(w) + 3, Len(l))) # <<>>

\* C27: simple_frontend::input rejects every well-formed `:load <file>`
\* with the error `:load is not enabled on this REPL.` and leaves both
\* environments as they were; no call of input ever runs the backend's load.
C27_LoadRejected ==
    [][ /\ ret'.op # "load"
        /\ (rl'.k = "Ok" /\ is_load_line(rl'.line)) =>
              /\ answer' = Answer("Other", "Error")
              /\ ret'.tag = "LoadDisabled"
              /\ type_env' = type_env
              /\ eval_env' = eval_env
              /\ thunks' = thunks ]_vars

\* A `:load` of a file that holds a record was rejected by a REPL whose
\* standard library is loaded.
C27_Witness ==
    /\ rl = Readline("Ok", <<":", "l", " ", "f">>)
    /\ file_at(<<"f">>).k = "Record"
    /\ answer = Answer("Other", "Error")
    /\ ret.tag = "LoadDisabled"
    /\ reported = "-"

(***************************************************************************)
(* Command::from_str on the texts made of a word and a rest.               *)
(***************************************************************************)
CommandWords ==
    {S_load, S_l, S_typecheck, S_tc, S_query, S_q, S_help, S_e,
     <<"f", "o", "o">>, <<"U+00E9">>, <<>>}

\* What follows the word: nothing, or a space and more.
CommandRests ==
    { <<>>,
      <<" ">>,
      <<" ", " ">>,
      <<" ", "\t">>,
      <<" ", "f">>,
      <<" ", " ", "f">>,
      <<" ", "f", " ">>,
      <<" ", "1", " ", "1">>,
      <<" ", "U+00E9">> }

InitCommand ==
    /\ InitBackend
    /\ pc = "none"
    /\ rl = Readline("none", <<>>)
    /\ reported = "-"
    /\ InitNoEditor
    /\ answer = None
    /\ cmd_in \in [word : CommandWords, rest : CommandRests]
    /\ command = None
    /\ InitNoPrint
    /\ InitNoCache
    /\ InitNoMerge

\* The text is parsed as a command.
FromStr ==
    /\ command = None
    /\ command' = command_from_str(cmd_in.word \o cmd_in.rest)
    /\ UNCHANGED <<backend_vars, pc, rl, reported, editor_vars, answer, cmd_in, merge_vars,
                 print_vars, cache_vars>>

NextCommand == FromStr

SpecCommand == InitCommand /\ [][NextCommand]_vars

\* The commands that take an argument.
ArgCommands == {"Load", "Typecheck", "Query"}

\* The names of a command that takes an argument.
names_of(typ) ==
    CASE typ = "Load" -> {S_load, S_l}
      [] typ = "Typecheck" -> {S_typecheck, S_tc}
      [] typ = "Query" -> {S_query, S_q}

\* C15: Command::from_str gives no Load, Typecheck or Query whose argument
\* is empty or blank: after load/l, typecheck/tc and query/q a missing or
\* blank argument is the error MissingArg naming the command, and any other
\* argument is carried by the command.
C15_NoBlankArgument ==
    command # None =>
        /\ (command.ok /\ command.typ \in ArgCommands) => trim(command.arg) # <<>>
        /\ \A typ \in ArgCommands :
              cmd_in.word \in names_of(typ) =>
                  IF trim(cmd_in.rest) = <<>>
                  THEN command = MissingArg(typ)
                  ELSE command = CmdOk(typ, Tail(cmd_in.rest))

\* `tc` followed by a space and a tab was parsed: the argument is missing.
C15_Witness ==
    /\ cmd_in = [word |-> S_tc, rest |-> <<" ", "\t">>]
    /\ command = MissingArg("Typecheck")

\* C25: Command::from_str takes the text before the first space for the
\* command word and the text after that space for the argument; a word that
\* is no name of a command gives UnknownCommand with exactly that word,
\* whatever characters it is made of.
C25_WordBeforeFirstSpace ==
    command # None =>
        IF command_type_from_str(cmd_in.word) = "Unknown"
        THEN command = UnknownCommand(cmd_in.word)
        ELSE (command.ok /\ command.typ \in ArgCommands) =>
                command.arg = Tail(cmd_in.rest)

(***************************************************************************)
(* The names of the commands: a word is parsed as a command type, and a    *)
(* command type is printed, listed with its aliases and parsed back.       *)
(***************************************************************************)
NameWords ==
    {S_load, S_l, S_typecheck, S_tc, S_query, S_q, S_help, S_qmark, S_h, S_exit, S_e,
     <<>>, <<"L">>, <<"l", "o">>, <<"t">>, <<"x">>, <<"U+00E9">>,
     <<"h", "e", "l", "p", "?">>, <<"q", "u", "i", "t">>, <<"l", "o", "a", "d", " ">>}

InitNames ==
    /\ InitBackend
    /\ pc = "none"
    /\ rl = Readline("none", <<>>)
    /\ reported = "-"
    /\ InitNoEditor
    /\ answer = None
    /\ cmd_in \in [word : NameWords, typ : CommandTypes]
    /\ command = None
    /\ InitNoPrint
    /\ InitNoCache
    /\ InitNoMerge

\* The word is parsed; the command type is printed and its aliases listed,
\* each of these is parsed, and the type of a command parsed from the
\* printed name is taken.
ParseNames ==
    /\ command = None
    /\ command' =
          [k |-> "Names",
           parsed |-> command_type_from_str(cmd_in.word),
           shown |-> display(cmd_in.typ),
           reparsed |-> command_type_from_str(display(cmd_in.typ)),
           aliases |-> aliases(cmd_in.typ),
           realiased |-> [i \in DOMAIN aliases(cmd_in.typ) |->
                            command_type_from_str(aliases(cmd_in.typ)[i])],
           typ |-> command_typ(command_from_str(display(cmd_in.typ) \o <<" ", "f">>))]
    /\ UNCHANGED <<backend_vars, pc, rl, reported, editor_vars, answer, cmd_in, merge_vars,
                 print_vars, cache_vars>>

NextNames == ParseNames

SpecNames == InitNames /\ [][NextNames]_vars

\* C24: the name Display prints for a command type parses to that type, so
\* does each of its aliases, a word parses to a type only if it is the
\* printed name or an alias of that type, and Command::typ of the command
\* parsed from the name is that type.
C24_NamesRoundTrip ==
    command # None =>
        /\ command.reparsed = cmd_in.typ
        /\ \A i \in DOMAIN command.realiased : command.realiased[i] = cmd_in.typ
        /\ command.parsed = cmd_in.typ <=>
              \/ cmd_in.word = command.shown
              \/ \E i \in DOMAIN command.aliases : command.aliases[i] = cmd_in.word
        /\ command.typ = cmd_in.typ

\* `?` was parsed next to help, of which it is the second alias.
C24_Witness ==
    /\ cmd_in = [word |-> S_qmark, typ |-> "Help"]
    /\ command # None
    /\ command.parsed = "Help"
    /\ command.aliases = <<S_h, S_qmark>>
    /\ command.reparsed = "Help"

(***************************************************************************)
(* The merge engine (crate::merge), which the `&` operator of a program    *)
(* reaches through the evaluator.  repl.rs does not hold it: it is         *)
(* modelled from its specification.                                        *)
(***************************************************************************)
\* The largest number a merged value holds.
MaxNum == 2

Fields == {"a", "b"}
Contracts == {"C", "D"}
Docs == {"d1", "d2"}
NoDoc == "-"
Priorities == {"default", "normal"}

\* MergePriority as a number: default is below normal.
rank(p) == IF p = "default" THEN 0 ELSE 1

NumT(n) == [k |-> "Num", n |-> n]
RecordT(f) == [k |-> "Record", f |-> f]
\* A meta-value: an optional value (NoValue for none), contracts, a merge
\* priority and an optional documentation.
MetaT(v, c, p, d) == [k |-> "Meta", v |-> v, c |-> c, p |-> p, d |-> d]
NoValue == [k |-> "NoValue"]
\* A merge conflict, with the path of fields that leads to it.
MergeErr(path) == [k |-> "MergeError", path |-> path]

\* A term seen as a meta-value: a plain term is a value of priority normal
\* with no contract and no documentation.
unwrap(t) == IF t.k = "Meta" THEN t ELSE MetaT(t, {}, "normal", NoDoc)

RECURSIVE merge(_, _)
RECURSIVE merge_values(_, _)
RECURSIVE merge_meta(_, _)

\* The merge of two records, field by field: a field of one side only is
\* kept, a field of both holds the merge of the two, which is made when the
\* field is forced: a conflict there is the error of that field, which
\* names it, and not of the record.
merge_records(fa, fb) ==
    RecordT([i \in DOMAIN fa \cup DOMAIN fb |->
               IF i \in DOMAIN fa /\ i \in DOMAIN fb
               THEN LET m == merge(fa[i], fb[i])
                    IN  IF m.k = "MergeError" THEN MergeErr(<<i>> \o m.path) ELSE m
               ELSE IF i \in DOMAIN fa THEN fa[i] ELSE fb[i]])

\* merge_values that keeps the left value where the two cannot be merged.
merge_values_left(a, b) ==
    IF a.k = "Record" /\ b.k = "Record"
    THEN merge_records(a.f, b.f)
    ELSE a

\* The merge of two values of equal priority: two records merge, anything
\* else is a conflict.
merge_values(a, b) ==
    IF a.k = "Record" /\ b.k = "Record"
    THEN merge_records(a.f, b.f)
    ELSE MergeErr(<<>>)

\* merge_meta that takes the left value whenever the priorities differ.
merge_meta_left(a, b) ==
    LET c == a.c \cup b.c
        d == IF a.d # NoDoc THEN a.d ELSE b.d
    IN  CASE a.v = NoValue /\ b.v = NoValue -> MetaT(NoValue, c, "normal", d)
          [] a.v = NoValue /\ b.v # NoValue -> MetaT(b.v, c, b.p, d)
          [] a.v # NoValue /\ b.v = NoValue -> MetaT(a.v, c, a.p, d)
          [] a.v # NoValue /\ b.v # NoValue /\ rank(a.p) # rank(b.p) ->
                MetaT(a.v, c, a.p, d)
          [] a.v # NoValue /\ b.v # NoValue /\ rank(a.p) = rank(b.p) ->
                LET v == merge_values(a.v, b.v)
                IN  IF v.k = "MergeError" THEN v ELSE MetaT(v, c, a.p, d)

\* merge_meta that gives the result the priority of the left side also when
\* the right side dominates.
merge_meta_priority_left(a, b) ==
    LET c == a.c \cup b.c
        d == IF a.d # NoDoc THEN a.d ELSE b.d
    IN  CASE a.v = NoValue /\ b.v = NoValue -> MetaT(NoValue, c, "normal", d)
          [] a.v = NoValue /\ b.v # NoValue -> MetaT(b.v, c, b.p, d)
          [] a.v # NoValue /\ b.v = NoValue -> MetaT(a.v, c, a.p, d)
          [] a.v # NoValue /\ b.v # NoValue /\ rank(a.p) > rank(b.p) ->
                MetaT(a.v, c, a.p, d)
          [] a.v # NoValue /\ b.v # NoValue /\ rank(b.p) > rank(a.p) ->
                MetaT(b.v, c, a.p, d)
          [] a.v # NoValue /\ b.v # NoValue /\ rank(a.p) = rank(b.p) ->
                LET v == merge_values(a.v, b.v)
                IN  IF v.k = "MergeError" THEN v ELSE MetaT(v, c, a.p, d)

\* merge_meta that drops the contracts of the dominated side with its value.
merge_meta_drop_contracts(a, b) ==
    LET c == a.c \cup b.c
        d == IF a.d # NoDoc THEN a.d ELSE b.d
    IN  CASE a.v = NoValue /\ b.v = NoValue -> MetaT(NoValue, c, "normal", d)
          [] a.v = NoValue /\ b.v # NoValue -> MetaT(b.v, c, b.p, d)
          [] a.v # NoValue /\ b.v = NoValue -> MetaT(a.v, c, a.p, d)
          [] a.v # NoValue /\ b.v # NoValue /\ rank(a.p) > rank(b.p) ->
                MetaT(a.v, a.c, a.p, d)
          [] a.v # NoValue /\ b.v # NoValue /\ rank(b.p) > rank(a.p) ->
                MetaT(b.v, b.c, b.p, d)
          [] a.v # NoValue /\ b.v # NoValue /\ rank(a.p) = rank(b.p) ->
                LET v == merge_values(a.v, b.v)
                IN  IF v.k = "MergeError" THEN v ELSE MetaT(v, c, a.p, d)

\* The merge of two meta-values: the contracts of both, the first
\* documentation there is, and the value of the side whose priority
\* dominates; at equal priority the values are merged.  With no value on
\* either side there is nothing to rank and the priority is the unspecified
\* one, normal.
merge_meta(a, b) ==
    LET c == a.c \cup b.c
        d == IF a.d # NoDoc THEN a.d ELSE b.d
    IN  CASE a.v = NoValue /\ b.v = NoValue -> MetaT(NoValue, c, "normal", d)
          [] a.v = NoValue /\ b.v # NoValue -> MetaT(b.v, c, b.p, d)
          [] a.v # NoValue /\ b.v = NoValue -> MetaT(a.v, c, a.p, d)
          [] a.v # NoValue /\ b.v # NoValue /\ rank(a.p) > rank(b.p) ->
                MetaT(a.v, c, a.p, d)
          [] a.v # NoValue /\ b.v # NoValue /\ rank(b.p) > rank(a.p) ->
                MetaT(b.v, c, b.p, d)
          [] a.v # NoValue /\ b.v # NoValue /\ rank(a.p) = rank(b.p) ->
                LET v == merge_values(a.v, b.v)
                IN  IF v.k = "MergeError" THEN v ELSE MetaT(v, c, a.p, d)

\* merge(term_a, term_b).  An operand that is itself a failed merge fails
\* the merge with its error.
merge(a, b) ==
    CASE a.k = "MergeError" -> a
      [] a.k # "MergeError" /\ b.k = "MergeError" -> b
      [] OTHER ->
            IF a.k = "Meta" \/ b.k = "Meta"
            THEN merge_meta(unwrap(a), unwrap(b))
            ELSE merge_values(a, b)

\* The value a term stands for: the value of a meta-value, the term itself
\* otherwise.
value_of(t) == IF t.k = "Meta" THEN t.v ELSE t

\* The priority of a term.
priority_of(t) == IF t.k = "Meta" THEN t.p ELSE "normal"

(***************************************************************************)
(* The terms given to merge.                                               *)
(***************************************************************************)
Nums == {NumT(n) : n \in 1..MaxNum}

\* Meta-values over numbers; one with neither value nor contract is not
\* constructed.
Metas ==
    {MetaT(v, c, p, d) :
        v \in Nums \cup {NoValue}, c \in {{}} \cup {{x} : x \in Contracts},
        p \in Priorities, d \in Docs \cup {NoDoc}}
    \ {MetaT(NoValue, {}, p, d) : p \in Priorities, d \in Docs \cup {NoDoc}}

FieldTerms == Nums \cup Metas

\* Records of one field, of two fields, and nested one level.
MergeRecords ==
    {RecordT([i \in {"a"} |-> t]) : t \in FieldTerms}
    \cup {RecordT([i \in {"a", "b"} |-> IF i = "a" THEN t ELSE n]) :
            t \in FieldTerms, n \in Nums}
    \cup {RecordT([i \in {"a"} |-> RecordT([j \in {x} |-> n])]) :
            x \in Fields, n \in Nums}

MergeTerms == Nums \cup Metas \cup MergeRecords

InitMerge ==
    /\ InitBackend
    /\ pc = "none"
    /\ rl = Readline("none", <<>>)
    /\ reported = "-"
    /\ InitNoInput
    /\ lhs \in MergeTerms
    /\ rhs \in MergeTerms
    /\ merged = NoMerge
    /\ InitNoFold

\* The evaluator forces lhs & rhs.
Merge ==
    /\ merged = NoMerge
    /\ merged' = merge(lhs, rhs)
    /\ UNCHANGED <<backend_vars, frontend_vars, lhs, rhs, fold_vars>>

NextMerge == Merge

SpecMerge == InitMerge /\ [][NextMerge]_vars

(***************************************************************************)
(* The claims about merge.                                                 *)
(***************************************************************************)
\* The term carries a value.
has_value(t) == value_of(t) # NoValue

\* C9: when two merged records define the same field, one with priority
\* default and one with priority normal, the field of the result has the
\* value of the normal side, whichever record is the left one.
C9_NormalWins ==
    (merged # NoMerge /\ lhs.k = "Record" /\ rhs.k = "Record") =>
        \A i \in DOMAIN lhs.f \cap DOMAIN rhs.f :
            LET x == lhs.f[i]
                y == rhs.f[i]
            IN  (has_value(x) /\ has_value(y) /\ priority_of(x) # priority_of(y)) =>
                    /\ merged.k = "Record"
                    /\ value_of(merged.f[i]) =
                         IF priority_of(x) = "normal" THEN value_of(x) ELSE value_of(y)

\* {a | default = 2} & {a = 1} was merged: the default is on the left.
C9_Witness ==
    /\ lhs = RecordT([i \in {"a"} |-> MetaT(NumT(2), {}, "default", NoDoc)])
    /\ rhs = RecordT([i \in {"a"} |-> NumT(1)])
    /\ merged.k = "Record"
    /\ value_of(merged.f["a"]) = NumT(1)

\* The term is, or carries, a value that is no record.
non_record(t) == has_value(t) /\ value_of(t).k # "Record"

\* C10: the merge of two values that are no records and have the same
\* priority is a merge conflict, and when they are the values of one field
\* of two merged records the conflict is that field's and names it; the
\* result is never the value of one side.
C10_EqualPriorityConflict ==
    merged # NoMerge =>
        /\ (non_record(lhs) /\ non_record(rhs) /\ priority_of(lhs) = priority_of(rhs)) =>
                merged = MergeErr(<<>>)
        /\ (lhs.k = "Record" /\ rhs.k = "Record") =>
                \A i \in DOMAIN lhs.f \cap DOMAIN rhs.f :
                    LET x == lhs.f[i]
                        y == rhs.f[i]
                    IN  (non_record(x) /\ non_record(y)
                         /\ priority_of(x) = priority_of(y)) =>
                            merged.f[i] = MergeErr(<<i>>)

\* {a = 1, b = 1} & {a = 2} was merged: a is in conflict, b is not.
C10_Witness ==
    /\ lhs = RecordT([i \in {"a", "b"} |-> NumT(1)])
    /\ rhs = RecordT([i \in {"a"} |-> NumT(2)])
    /\ merged.k = "Record"
    /\ merged.f["a"] = MergeErr(<<"a">>)
    /\ merged.f["b"] = NumT(1)

(***************************************************************************)
(* Multi-way merges: three records merged in both groupings, and two in    *)
(* both orders.                                                            *)
(***************************************************************************)
\* The contracts a term carries.
contracts_of(t) == IF t.k = "Meta" THEN t.c ELSE {}

\* Meta-values of the fields of the folded records.
FoldMetas ==
    {m \in Metas : m.c \subseteq {"C"}}

FoldFieldTerms == Nums \cup FoldMetas

\* Records of the field a, records of the field b only, and nested ones.
FoldRecords ==
    {RecordT([i \in {"a"} |-> t]) : t \in FoldFieldTerms}
    \cup {RecordT([i \in {"b"} |-> n]) : n \in Nums}
    \cup {RecordT([i \in {"a"} |-> RecordT([j \in {x} |-> NumT(1)])]) : x \in Fields}

InitFold ==
    /\ InitBackend
    /\ pc = "none"
    /\ rl = Readline("none", <<>>)
    /\ reported = "-"
    /\ InitNoInput
    /\ lhs \in FoldRecords
    /\ rhs \in FoldRecords
    /\ third \in FoldRecords
    /\ merged = NoMerge
    /\ swapped = NoMerge
    /\ foldl = NoMerge
    /\ foldr = NoMerge

\* The evaluator forces lhs & rhs, rhs & lhs, (lhs & rhs) & third and
\* lhs & (rhs & third).
Fold ==
    /\ foldl = NoMerge
    /\ merged' = merge(lhs, rhs)
    /\ swapped' = merge(rhs, lhs)
    /\ foldl' = merge(merge(lhs, rhs), third)
    /\ foldr' = merge(lhs, merge(rhs, third))
    /\ UNCHANGED <<backend_vars, frontend_vars, lhs, rhs, third>>

NextFold == Fold

SpecFold == InitFold /\ [][NextFold]_vars

(***************************************************************************)
(* The claims about multi-way merges and contracts.                        *)
(***************************************************************************)
RECURSIVE compatible(_, _)
\* Two terms have no conflict: where both carry a value at the same
\* priority the values are records whose common fields have no conflict.
compatible(x, y) ==
    (has_value(x) /\ has_value(y) /\ priority_of(x) = priority_of(y)) =>
        /\ value_of(x).k = "Record"
        /\ value_of(y).k = "Record"
        /\ \A i \in DOMAIN value_of(x).f \cap DOMAIN value_of(y).f :
              compatible(value_of(x).f[i], value_of(y).f[i])

\* The three operands are pairwise without conflict.
well_formed == compatible(lhs, rhs) /\ compatible(rhs, third) /\ compatible(lhs, third)

RECURSIVE strip_doc(_)
\* The term without its documentation.
strip_doc(t) ==
    CASE t.k = "Meta" -> MetaT(strip_doc(t.v), t.c, t.p, NoDoc)
      [] t.k = "Record" -> RecordT([i \in DOMAIN t.f |-> strip_doc(t.f[i])])
      [] OTHER -> t

RECURSIVE both_documented(_, _)
\* Somewhere the two terms both carry a documentation.
both_documented(x, y) ==
    \/ x.k = "Meta" /\ y.k = "Meta" /\ x.d # NoDoc /\ y.d # NoDoc
    \/ /\ has_value(x) /\ has_value(y)
       /\ value_of(x).k = "Record" /\ value_of(y).k = "Record"
       /\ \E i \in DOMAIN value_of(x).f \cap DOMAIN value_of(y).f :
             both_documented(value_of(x).f[i], value_of(y).f[i])

dominant_with_contracts(x, y, m) ==
    (has_value(x) /\ has_value(y) /\ rank(priority_of(x)) # rank(priority_of(y))) =>
        /\ m.k = "Meta"
        /\ m.v = IF rank(priority_of(x)) > rank(priority_of(y))
                 THEN value_of(x) ELSE value_of(y)
        /\ m.c = contracts_of(x) \cup contracts_of(y)

\* C12: when one side of a merge dominates by priority the result has the
\* value of the dominant side and the contracts of both sides, for two
\* merged values and for a field of two merged records.
C12_ContractsCarried ==
    merged # NoMerge =>
        /\ dominant_with_contracts(lhs, rhs, merged)
        /\ (lhs.k = "Record" /\ rhs.k = "Record") =>
              \A i \in DOMAIN lhs.f \cap DOMAIN rhs.f :
                  dominant_with_contracts(lhs.f[i], rhs.f[i], merged.f[i])

\* {a | C | default = 1} & {a | D = 2} was merged: a is 2 under C and D.
C12_Witness ==
    /\ lhs = RecordT([i \in {"a"} |-> MetaT(NumT(1), {"C"}, "default", NoDoc)])
    /\ rhs = RecordT([i \in {"a"} |-> MetaT(NumT(2), {"D"}, "normal", NoDoc)])
    /\ merged = RecordT([i \in {"a"} |-> MetaT(NumT(2), {"C", "D"}, "normal", NoDoc)])

(***************************************************************************)
(* The names of the sources in the cache.  Cache and the generate_counter! *)
(* macro are outside repl.rs: add_string always adds a source, add_tmp     *)
(* replaces the source of the same name, and next hands out the counter's  *)
(* value and advances it by one.                                           *)
(***************************************************************************)
MaxInputs == 2

\* format!("repl-input-{}", n)
InputName(n) == [base |-> "repl-input", n |-> n]

\* A fixed name such as "<repl-typecheck>".
TmpName(base) == [base |-> base, n |-> -1]

Source(name, src) == [name |-> name, src |-> src]

\* InputNameCounter::next that hands out the value and leaves the counter.
next_stuck(c) == [value |-> c, counter |-> c]

\* InputNameCounter::next(): the value handed out and the counter after it.
next(c) == [value |-> c, counter |-> c + 1]

\* Cache::add_string(source_name, s)
add_string(c, name, src) == Append(c, Source(name, src))

\* Cache::add_tmp(source_name, s)
add_tmp(c, name, src) ==
    IF \E i \in DOMAIN c : c[i].name = name
    THEN [i \in DOMAIN c |-> IF c[i].name = name THEN Source(name, src) ELSE c[i]]
    ELSE Append(c, Source(name, src))

\* The inputs: a number, a text that does not parse, an ill-typed term and
\* a toplevel let.
CacheLines ==
    { <<"1">>,
      <<")">>,
      <<"1", ":", "S", "t", "r">>,
      <<"l", "e", "t", " ", "x", "=", "1">> }

InitCache ==
    /\ InitBackend
    /\ pc = "none"
    /\ rl = Readline("none", <<>>)
    /\ reported = "-"
    /\ InitNoInput
    /\ InitNoMerge

\* REPLImpl::eval on a source text, with the registration of the text.
CacheEval ==
    /\ counter < MaxInputs
    /\ \E src \in CacheLines :
          LET n == next(counter)
          IN  /\ cache' = add_string(cache, InputName(n.value), src)
              /\ counter' = n.counter
              /\ Becomes(eval(Self, parse_extended(src)))
    /\ UNCHANGED <<pc, rl, reported, editor_vars, answer, command_vars,
                 print_vars, merge_vars>>

\* REPLImpl::typecheck on a source text.
CacheTypecheck ==
    /\ \E src \in CacheLines :
          /\ cache' = add_tmp(cache, TmpName("<repl-typecheck>"), src)
          /\ Becomes(typecheck(Self, parse_extended(src)))
    /\ UNCHANGED <<counter, pc, rl, reported, editor_vars, answer, command_vars,
                 print_vars, merge_vars>>

\* REPLImpl::query on a source text.
CacheQuery ==
    /\ \E src \in CacheLines :
          /\ cache' = add_tmp(cache, TmpName("<repl-query>"), src)
          /\ Becomes(query(Self, parse_extended(src)))
    /\ UNCHANGED <<counter, pc, rl, reported, editor_vars, answer, command_vars,
                 print_vars, merge_vars>>

NextCache == CacheEval \/ CacheTypecheck \/ CacheQuery

SpecCache == InitCache /\ [][NextCache]_vars

\* The names of the sources of a cache.
names(c) == {c[i].name : i \in DOMAIN c}

\* The cache c with one more source at its end, named name.
registers(c, d, name) ==
    /\ Len(d) = Len(c) + 1
    /\ SubSeq(d, 1, Len(c)) = c
    /\ d[Len(d)].name = name

\* The cache c with the source named name replaced, or added when c has
\* none of that name; every other source is kept.
reuses(c, d, name) ==
    /\ names(d) = names(c) \cup {name}
    /\ Len(d) = Len(c) + (IF name \in names(c) THEN 0 ELSE 1)
    /\ \A i \in DOMAIN c : c[i].name # name => d[i] = c[i]

\* C28: every call of eval, failing or not, registers its input under a
\* name repl-input-N that no source of the cache has, N being the value of
\* a counter that the call advances; typecheck and query leave the counter
\* and reuse the names <repl-typecheck> and <repl-query>; no two sources of
\* the cache have the same name.
C28_InputNamesDistinct ==
    [][ /\ ret'.op = "eval" =>
              /\ InputName(counter) \notin names(cache)
              /\ registers(cache, cache', InputName(counter))
              /\ counter' = counter + 1
        /\ ret'.op = "typecheck" =>
              /\ reuses(cache, cache', TmpName("<repl-typecheck>"))
              /\ counter' = counter
        /\ ret'.op = "query" =>
              /\ reuses(cache, cache', TmpName("<repl-query>"))
              /\ counter' = counter
        /\ \A i, j \in DOMAIN cache' :
              cache'[i].name = cache'[j].name => i = j ]_vars

\* Two inputs were given to eval, the last one failing to parse, after
\* typecheck and query were used twice each.
C28_Witness ==
    /\ ret.op = "eval"
    /\ ret.tag = "ParseError"
    /\ counter = 2
    /\ Len(cache) = 4
    /\ cache[1].name = TmpName("<repl-typecheck>")
    /\ cache[2].name = InputName(0)
    /\ cache[3].name = TmpName("<repl-query>")
    /\ cache[4] = Source(InputName(1), <<")">>)

(***************************************************************************)
(* The report of a query (mod query_print), with the SimpleRenderer.  The  *)
(* terms are those of the merge; the contracts of a meta-value are the set *)
(* of their labels and the fields of a record the set of its keys, the     *)
(* sorted list of which the renderer writes.                               *)
(***************************************************************************)
Attributes(doc, contract, default, value) ==
    [doc |-> doc, contract |-> contract, default |-> default, value |-> value]

\* <Attributes as Default>::default
DefaultAttributes == Attributes(TRUE, TRUE, TRUE, TRUE)

\* A documentation of more than one line.
MultiLineDoc == "d1\nd2"

\* content.find('\n').is_none()
single_line(content) == content # MultiLineDoc

\* writeln!(out, text)
WriteLn(text) == [kind |-> "text", attr |-> "-", value |-> text]

\* SimpleRenderer::write_metadata: the line `* attr: value`.
write_metadata(attr, value) == [kind |-> "metadata", attr |-> attr, value |-> value]

\* SimpleRenderer::write_doc
write_doc(content) ==
    IF single_line(content)
    THEN <<write_metadata("documentation", content)>>
    ELSE <<write_metadata("documentation", ""), WriteLn(content)>>

\* SimpleRenderer::write_fields: `Available fields:` and a line by field.
renderer_write_fields(fields) ==
    <<[kind |-> "fields", attr |-> "-", value |-> fields]>>

\* Term::shallow_repr, which is outside repl.rs: a number is its numeral, a
\* record is `{ ... }` whatever its fields.
shallow_repr(t) ==
    CASE t.k = "Num" -> ToString(t.n)
      [] t.k = "Record" -> "{ ... }"
      [] OTHER -> "<>"

\* write_fields inside write_query_result_: an empty line, then the fields
\* of a record, `* value: {}` for the empty record, nothing for another
\* term.
write_fields(t) ==
    <<WriteLn("")>>
    \o CASE t.k = "Record" /\ DOMAIN t.f # {} -> renderer_write_fields(DOMAIN t.f)
         [] t.k = "Record" /\ DOMAIN t.f = {} -> <<write_metadata("value", "{}")>>
         [] OTHER -> <<>>

\* write_query_result_(out, term, selected_attrs, renderer): the lines
\* written to out.  The message of the case where nothing was found goes to
\* the standard output, not to out.
write_query_result_(term, selected_attrs) ==
    CASE term.k = "Meta" ->
            LET contract == IF term.c # {} /\ selected_attrs.contract
                            THEN <<write_metadata("contract", term.c)>>
                            ELSE <<>>
                value == CASE term.p = "default" /\ term.v # NoValue
                              /\ selected_attrs.default ->
                                <<write_metadata("default", shallow_repr(term.v))>>
                           [] term.p = "normal" /\ term.v # NoValue
                              /\ selected_attrs.value ->
                                <<write_metadata("value", shallow_repr(term.v))>>
                           [] OTHER -> <<>>
                doc == IF term.d # NoDoc /\ selected_attrs.doc
                       THEN write_doc(term.d)
                       ELSE <<>>
                found == contract # <<>> \/ value # <<>> \/ doc # <<>>
                fields == IF term.v # NoValue THEN write_fields(term.v) ELSE <<>>
            IN  contract \o value \o doc
                \o (IF ~found THEN fields ELSE <<>>)
                \o fields
      [] term.k = "Record" ->
            <<WriteLn("No metadata found for this value.")>> \o write_fields(term)
      [] OTHER ->
            <<WriteLn("jo metadata found for this value.\n")>>
            \o (IF selected_attrs.value
                THEN <<write_metadata("value", shallow_repr(term))>>
                ELSE <<>>)

\* write_query_result(out, term, selected_attrs), without markdown.
write_query_result(term, selected_attrs) == write_query_result_(term, selected_attrs)

\* The records queried: the empty one and one with a field.
QueryRecords == {RecordT(EmptyEnv), RecordT([i \in {"a"} |-> NumT(1)])}

\* The terms queried: a number, a record, or a meta-value with or without a
\* value, contract and documentation.
QueryTerms ==
    {NumT(1)} \cup QueryRecords
    \cup {MetaT(v, c, p, d) :
            v \in {NoValue, NumT(1)} \cup QueryRecords, c \in {{}, {"C"}},
            p \in Priorities, d \in {NoDoc, "d1", MultiLineDoc}}

AttributesSet ==
    {Attributes(d, c, f, v) : d \in BOOLEAN, c \in BOOLEAN, f \in BOOLEAN, v \in BOOLEAN}

InitQueryPrint ==
    /\ InitBackend
    /\ pc = "query_print"
    /\ rl = Readline("none", <<>>)
    /\ reported = "-"
    /\ InitNoEditor
    /\ answer = None
    /\ cmd_in = None
    /\ command = None
    /\ InitNoCache
    /\ InitNoMerge
    /\ out = <<>>
    /\ qterm \in QueryTerms
    /\ attrs \in AttributesSet

\* write_query_result on the empty buffer out.
WriteQueryResult ==
    /\ pc = "query_print"
    /\ out' = write_query_result(qterm, attrs)
    /\ pc' = "printed"
    /\ UNCHANGED <<backend_vars, rl, reported, editor_vars, answer, command_vars,
                 qterm, attrs, cache_vars, merge_vars>>

NextQueryPrint == WriteQueryResult

SpecQueryPrint == InitQueryPrint /\ [][NextQueryPrint]_vars

\* The attributes that the lines of a report are headed by.
headings(o) == {o[i].attr : i \in {j \in DOMAIN o : o[j].kind = "metadata"}}

\* C21: with every attribute asked for, the report of a meta-value that has
\* a value shows it under one heading, `default` for the priority Default
\* and `value` for the priority Normal, never under both; its contracts and
\* its documentation are reported when it has them.
C21_OneHeadingByPriority ==
    (pc = "printed" /\ qterm.k = "Meta" /\ attrs = DefaultAttributes) =>
        /\ (qterm.v # NoValue /\ qterm.p = "default") =>
              ("default" \in headings(out) /\ "value" \notin headings(out))
        /\ (qterm.v # NoValue /\ qterm.p = "normal") =>
              ("value" \in headings(out) /\ "default" \notin headings(out))
        /\ qterm.c # {} => "contract" \in headings(out)
        /\ qterm.d # NoDoc => "documentation" \in headings(out)

\* C29: write_query_result writes an attribute only when its flag in the
\* Attributes is true: no `value` line when value is false, and likewise
\* for contract, default and documentation.
C29_OnlySelectedAttributes ==
    pc = "printed" =>
        /\ ~attrs.value => "value" \notin headings(out)
        /\ ~attrs.default => "default" \notin headings(out)
        /\ ~attrs.contract => "contract" \notin headings(out)
        /\ ~attrs.doc => "documentation" \notin headings(out)

====
